---- MODULE Spec2Model ----
(***************************************************************************)
(* Model of the data pipeline of app-analise-cnpj:                         *)
(*   - the row normalizer of fetchSheetData (services/dataService.ts),     *)
(*   - the dataset loader fetchSheetData itself,                           *)
(*   - the App component's load effect and filter effect (App.tsx),        *)
(*   - the aggregators of the charts (services/dataService.ts).           *)
(*                                                                         *)
(* JavaScript strings are TLA+ strings; a JavaScript number is a decimal   *)
(* m * 10^-e (or NaN); a cell of a row is a tagged value.                  *)
(***************************************************************************)
EXTENDS Integers, Sequences, FiniteSets, TLC

(***************************************************************************)
(* Strings                                                                 *)
(***************************************************************************)

\* The no-break space U+00A0 that Intl puts between "R$" and the amount.
NBSP == " "

Digits == "0123456789"
LowerLetters == "abcdefghijklmnopqrstuvwxyzáí"
UpperLetters == "ABCDEFGHIJKLMNOPQRSTUVWXYZÁÍ"

CharAt(s, i) == SubSeq(s, i, i)

\* String.prototype.indexOf for a single character, 1-based, 0 when absent.
IndexOfChar(s, c) ==
  LET hits == {i \in 1..Len(s) : CharAt(s, i) = c} IN
  IF hits = {} THEN 0 ELSE CHOOSE i \in hits : \A j \in hits : i <= j

DigitSet == {CharAt(Digits, i) : i \in 1..Len(Digits)}
LowerSet == {CharAt(LowerLetters, i) : i \in 1..Len(LowerLetters)}
UpperSet == {CharAt(UpperLetters, i) : i \in 1..Len(UpperLetters)}

IsDigit(c) == c \in DigitSet

\* The characters String.prototype.trim removes.
IsSpace(c) == c \in {" ", "\n", "\r", NBSP}

\* String.prototype.includes
Includes(s, sub) ==
  \E i \in 1..(Len(s) - Len(sub) + 1) : SubSeq(s, i, i + Len(sub) - 1) = sub

\* String.prototype.startsWith
StartsWith(s, pre) == Len(pre) <= Len(s) /\ SubSeq(s, 1, Len(pre)) = pre

\* Each lower-case letter with its upper-case letter.
LetterPairs ==
  {[lower |-> CharAt(LowerLetters, i), upper |-> CharAt(UpperLetters, i)] :
     i \in 1..Len(LowerLetters)}

UpperChar(c) ==
  IF c \in LowerSet THEN (CHOOSE pair \in LetterPairs : pair.lower = c).upper ELSE c

LowerChar(c) ==
  IF c \in UpperSet THEN (CHOOSE pair \in LetterPairs : pair.upper = c).lower ELSE c

RECURSIVE ToUpperCase(_)
ToUpperCase(s) ==
  IF s = "" THEN "" ELSE UpperChar(CharAt(s, 1)) \o ToUpperCase(SubSeq(s, 2, Len(s)))

RECURSIVE ToLowerCase(_)
ToLowerCase(s) ==
  IF s = "" THEN "" ELSE LowerChar(CharAt(s, 1)) \o ToLowerCase(SubSeq(s, 2, Len(s)))

RECURSIVE TrimStart(_)
TrimStart(s) ==
  IF s # "" /\ IsSpace(CharAt(s, 1)) THEN TrimStart(SubSeq(s, 2, Len(s))) ELSE s

RECURSIVE TrimEnd(_)
TrimEnd(s) ==
  IF s # "" /\ IsSpace(CharAt(s, Len(s))) THEN TrimEnd(SubSeq(s, 1, Len(s) - 1)) ELSE s

\* String.prototype.trim
Trim(s) == TrimEnd(TrimStart(s))

\* s.replace(/\D/g, '')
RECURSIVE StripNonDigits(_)
StripNonDigits(s) ==
  IF s = "" THEN ""
  ELSE (IF IsDigit(CharAt(s, 1)) THEN CharAt(s, 1) ELSE "")
         \o StripNonDigits(SubSeq(s, 2, Len(s)))

\* s.replace(/[^\d,.-]/g, '')
RECURSIVE StripNonCurrency(_)
StripNonCurrency(s) ==
  IF s = "" THEN ""
  ELSE (IF IsDigit(CharAt(s, 1)) \/ CharAt(s, 1) \in {",", ".", "-"} THEN CharAt(s, 1) ELSE "")
         \o StripNonCurrency(SubSeq(s, 2, Len(s)))

\* The capital rule without its removal of the thousands separators.
KeepPeriods(s) == s

\* s.replace(/\./g, '')
RECURSIVE RemovePeriods(_)
RemovePeriods(s) ==
  IF s = "" THEN ""
  ELSE (IF CharAt(s, 1) = "." THEN "" ELSE CharAt(s, 1)) \o RemovePeriods(SubSeq(s, 2, Len(s)))

\* s.replace(',', '.'): a string pattern replaces the first occurrence only.
ReplaceFirstComma(s) ==
  LET i == IndexOfChar(s, ",") IN
  IF i = 0 THEN s ELSE SubSeq(s, 1, i - 1) \o "." \o SubSeq(s, i + 1, Len(s))

\* s.split(';')
RECURSIVE Split(_)
Split(s) ==
  LET i == IndexOfChar(s, ";") IN
  IF i = 0 THEN <<s>> ELSE <<SubSeq(s, 1, i - 1)>> \o Split(SubSeq(s, i + 1, Len(s)))

\* list.join(sep)
RECURSIVE Join(_, _)
Join(list, sep) ==
  IF list = <<>> THEN ""
  ELSE IF Len(list) = 1 THEN list[1]
  ELSE list[1] \o sep \o Join(Tail(list), sep)

\* list.map(s => s.trim())
RECURSIVE MapTrim(_)
MapTrim(list) ==
  IF list = <<>> THEN <<>> ELSE <<Trim(list[1])>> \o MapTrim(Tail(list))

\* The list rules without their filter: empty pieces stay in the list.
KeepEmpty(list) == list

\* list.filter(s => s)  and  list.filter(s => s.length > 0)
RECURSIVE FilterNonEmpty(_)
FilterNonEmpty(list) ==
  IF list = <<>> THEN <<>>
  ELSE (IF list[1] # "" THEN <<list[1]>> ELSE <<>>) \o FilterNonEmpty(Tail(list))

\* s.padStart(n, '0')
RECURSIVE PadStartZero(_, _)
PadStartZero(s, n) == IF Len(s) >= n THEN s ELSE PadStartZero("0" \o s, n)

\* The longest prefix of s made of digits.
RECURSIVE DigitPrefix(_)
DigitPrefix(s) ==
  IF s # "" /\ IsDigit(CharAt(s, 1)) THEN CharAt(s, 1) \o DigitPrefix(SubSeq(s, 2, Len(s))) ELSE ""

\* The number a string of digits denotes (0 for the empty string).
RECURSIVE DigitsToInt(_)
DigitsToInt(s) ==
  IF s = "" THEN 0
  ELSE 10 * DigitsToInt(SubSeq(s, 1, Len(s) - 1)) + (IndexOfChar(Digits, CharAt(s, Len(s))) - 1)

\* The decimal digits of a natural number.
RECURSIVE IntToDigits(_)
IntToDigits(n) ==
  IF n < 10 THEN CharAt(Digits, n + 1)
  ELSE IntToDigits(n \div 10) \o CharAt(Digits, (n % 10) + 1)

RECURSIVE Pow10(_)
Pow10(k) == IF k = 0 THEN 1 ELSE 10 * Pow10(k - 1)

(***************************************************************************)
(* Values: a JavaScript value is a record                                  *)
(*   t   : the typeof tag ("string", "number", "boolean", "null",          *)
(*         "undefined", "array")                                           *)
(*   s   : the characters of a string, or String(b) of a boolean           *)
(*   nan, m, e : a number, NaN or m * 10^-e with no trailing zero digit    *)
(*   l   : the items of an array of strings                                *)
(***************************************************************************)

Blank == [t |-> "undefined", s |-> "", nan |-> FALSE, m |-> 0, e |-> 0, l |-> <<>>]

Undefined == Blank
Null == [Blank EXCEPT !.t = "null"]
StrV(str) == [Blank EXCEPT !.t = "string", !.s = str]
BoolV(b) == [Blank EXCEPT !.t = "boolean", !.s = IF b THEN "true" ELSE "false"]
NaNV == [Blank EXCEPT !.t = "number", !.nan = TRUE]
ArrV(list) == [Blank EXCEPT !.t = "array", !.l = list]

Abs(i) == IF i < 0 THEN -i ELSE i

\* The decimal m * 10^-e without trailing zero digits in its fraction.
RECURSIVE NumV(_, _)
NumV(m, e) ==
  IF e > 0 /\ Abs(m) % 10 = 0 THEN NumV(m \div 10, e - 1)
  ELSE [Blank EXCEPT !.t = "number", !.m = m, !.e = e]

IsNumber(v) == v.t = "number"
IsString(v) == v.t = "string"

\* JavaScript truthiness, as tested by `&& val`.
Truthy(v) ==
  CASE v.t = "string" -> v.s # ""
    [] v.t = "number" -> ~v.nan /\ v.m # 0
    [] v.t = "boolean" -> v.s = "true"
    [] v.t = "array" -> TRUE
    [] OTHER -> FALSE

\* Number.prototype.toString for a decimal in plain notation.
NumToString(v) ==
  IF v.nan THEN "NaN"
  ELSE LET a == Abs(v.m)
           p == Pow10(v.e)
           ip == IntToDigits(a \div p)
           fp == IF v.e = 0 THEN "" ELSE "." \o PadStartZero(IntToDigits(a % p), v.e)
       IN (IF v.m < 0 THEN "-" ELSE "") \o ip \o fp

\* String(val)
JsString(v) ==
  CASE v.t = "string" -> v.s
    [] v.t = "number" -> NumToString(v)
    [] v.t = "boolean" -> v.s
    [] v.t = "null" -> "null"
    [] v.t = "array" -> Join(v.l, ",")
    [] OTHER -> "undefined"

\* parseFloat: optional sign, digits, optional fraction; the longest such
\* prefix is the value, and a prefix without any digit is NaN.
ParseFloat(str) ==
  LET neg == StartsWith(str, "-")
      r == IF neg THEN SubSeq(str, 2, Len(str)) ELSE str
      ip == DigitPrefix(r)
      rest == SubSeq(r, Len(ip) + 1, Len(r))
      fp == IF StartsWith(rest, ".") THEN DigitPrefix(SubSeq(rest, 2, Len(rest))) ELSE ""
      mant == DigitsToInt(ip \o fp)
  IN IF ip = "" /\ fp = "" THEN NaNV
     ELSE NumV(IF neg THEN -mant ELSE mant, Len(fp))

(***************************************************************************)
(* Formatters                                                              *)
(***************************************************************************)

\* "$1.$2.$3/$4-$5" applied to the first fourteen digits; what follows stays.
FormatCNPJ(value) ==
  IF value = "" THEN value
  ELSE LET v == PadStartZero(StripNonDigits(value), 14) IN
       SubSeq(v, 1, 2) \o "." \o SubSeq(v, 3, 5) \o "." \o SubSeq(v, 6, 8) \o "/"
         \o SubSeq(v, 9, 12) \o "-" \o SubSeq(v, 13, 14) \o SubSeq(v, 15, Len(v))

\* new Date(str) for the ISO forms "YYYY" and "YYYY-MM-DD" (midnight UTC);
\* any other text is an invalid date.
AllDigits(str) == str # "" /\ \A i \in 1..Len(str) : IsDigit(CharAt(str, i))

InvalidDate == [ok |-> FALSE, y |-> 0, mo |-> 0, d |-> 0]

ParseDate(str) ==
  IF Len(str) = 4 /\ AllDigits(str)
  THEN [ok |-> TRUE, y |-> DigitsToInt(str), mo |-> 1, d |-> 1]
  ELSE IF /\ Len(str) = 10
          /\ AllDigits(SubSeq(str, 1, 4)) /\ CharAt(str, 5) = "-"
          /\ AllDigits(SubSeq(str, 6, 7)) /\ CharAt(str, 8) = "-"
          /\ AllDigits(SubSeq(str, 9, 10))
          /\ DigitsToInt(SubSeq(str, 6, 7)) \in 1..12
          /\ DigitsToInt(SubSeq(str, 9, 10)) \in 1..28
       THEN [ok |-> TRUE, y |-> DigitsToInt(SubSeq(str, 1, 4)),
             mo |-> DigitsToInt(SubSeq(str, 6, 7)), d |-> DigitsToInt(SubSeq(str, 9, 10))]
       ELSE InvalidDate

\* Date.prototype.getFullYear: the year of the instant in the local time
\* zone, tz hours from UTC. Midnight UTC of 1 January lies in the previous
\* year west of Greenwich.
GetFullYear(date, tz) ==
  IF tz < 0 /\ date.mo = 1 /\ date.d = 1 THEN date.y - 1 ELSE date.y

\* Intl.DateTimeFormat('pt-BR', {timeZone: 'UTC'}): dd/mm/yyyy of the UTC day.
FormatDate(value) ==
  IF value = "" THEN ""
  ELSE LET date == ParseDate(value) IN
       IF ~date.ok THEN value
       ELSE PadStartZero(IntToDigits(date.d), 2) \o "/"
              \o PadStartZero(IntToDigits(date.mo), 2) \o "/" \o IntToDigits(date.y)

\* Digits with a period before every group of three from the right.
RECURSIVE GroupThousands(_)
GroupThousands(ds) ==
  IF Len(ds) <= 3 THEN ds
  ELSE GroupThousands(SubSeq(ds, 1, Len(ds) - 3)) \o "." \o SubSeq(ds, Len(ds) - 2, Len(ds))

\* The currency formatter with a decimal point and no grouping, "R$ 1234.56".
FormatCurrencyDecimalPoint(v) ==
  IF v.nan THEN "R$" \o NBSP \o "NaN"
  ELSE LET a == Abs(v.m)
           cents == IF v.e <= 2 THEN a * Pow10(2 - v.e)
                    ELSE (2 * a + Pow10(v.e - 2)) \div (2 * Pow10(v.e - 2))
       IN (IF v.m < 0 THEN "-" ELSE "") \o "R$" \o NBSP
            \o IntToDigits(cents \div 100) \o "."
            \o PadStartZero(IntToDigits(cents % 100), 2)

\* Intl.NumberFormat('pt-BR', {style: 'currency', currency: 'BRL'}): two
\* fraction digits, rounded half away from zero.
FormatCurrency(v) ==
  IF v.nan THEN "R$" \o NBSP \o "NaN"
  ELSE LET a == Abs(v.m)
           cents == IF v.e <= 2 THEN a * Pow10(2 - v.e)
                    ELSE (2 * a + Pow10(v.e - 2)) \div (2 * Pow10(v.e - 2))
       IN (IF v.m < 0 THEN "-" ELSE "") \o "R$" \o NBSP
            \o GroupThousands(IntToDigits(cents \div 100)) \o ","
            \o PadStartZero(IntToDigits(cents % 100), 2)

(***************************************************************************)
(* Rows: a JavaScript object is the sequence of its [k, v] entries in      *)
(* insertion order.                                                        *)
(***************************************************************************)

HasProp(obj, key) == \E i \in 1..Len(obj) : obj[i].k = key

\* obj[key], undefined when the object has no such key.
GetProp(obj, key) ==
  IF HasProp(obj, key) THEN obj[CHOOSE i \in 1..Len(obj) : obj[i].k = key].v ELSE Undefined

\* obj[key] = value
SetProp(obj, key, value) ==
  IF HasProp(obj, key)
  THEN [i \in 1..Len(obj) |-> IF obj[i].k = key THEN [k |-> key, v |-> value] ELSE obj[i]]
  ELSE Append(obj, [k |-> key, v |-> value])

\* Object.keys(obj)
ObjectKeys(obj) == [i \in 1..Len(obj) |-> obj[i].k]

(***************************************************************************)
(* The row normalizer: the body of keys.forEach in fetchSheetData. Each    *)
(* rule maps st = [val, newRow] to the pair after the rule.                *)
(***************************************************************************)

\* The tests of the rules on the upper-cased name of the column.
IsCnpjKey(upperKey) == Includes(upperKey, "CNPJ")
IsDateKey(upperKey) == Includes(upperKey, "DATA") \/ Includes(upperKey, "INICIO")
IsCapitalKey(upperKey) == Includes(upperKey, "CAPITAL")
IsSociosKey(upperKey) == Includes(upperKey, "SOCIOS") \/ Includes(upperKey, "QSA")
IsActivityKey(upperKey) == Includes(upperKey, "CNAE") \/ Includes(upperKey, "ATIVIDADE")
IsCnaePrincipalKey(upperKey) ==
  /\ IsActivityKey(upperKey)
  /\ \/ Includes(upperKey, "PRIMARIO")
     \/ Includes(upperKey, "PRIMÁRIO")
     \/ Includes(upperKey, "PRINCIPAL")
IsCnaeSecundarioKey(upperKey) ==
  /\ IsActivityKey(upperKey)
  /\ (Includes(upperKey, "SECUNDARI") \/ Includes(upperKey, "SECUNDÁRI"))
IsUfKey(upperKey) == upperKey = "UF" \/ Includes(upperKey, "ESTADO")

\* 1. CNPJ
RuleCNPJ(upperKey, st) ==
  IF IsCnpjKey(upperKey) /\ Truthy(st.val)
  THEN [st EXCEPT !.val = StrV(FormatCNPJ(JsString(st.val)))]
  ELSE st

\* The date rule without its test of the parsed date: getFullYear() of an
\* invalid date is NaN.
RuleDateUnchecked(upperKey, rawVal, tz, st) ==
  IF IsDateKey(upperKey) /\ Truthy(st.val)
  THEN LET dateObj == ParseDate(JsString(rawVal)) IN
       [val |-> StrV(FormatDate(JsString(st.val))),
        newRow |-> SetProp(st.newRow, "_year",
                           IF dateObj.ok THEN NumV(GetFullYear(dateObj, tz), 0) ELSE NaNV)]
  ELSE st

\* 2. Data: the display value is reformatted and the year is taken from the
\* raw cell, row[key].
RuleDate(upperKey, rawVal, tz, st) ==
  IF IsDateKey(upperKey) /\ Truthy(st.val)
  THEN LET dateObj == ParseDate(JsString(rawVal)) IN
       [val |-> StrV(FormatDate(JsString(st.val))),
        newRow |-> IF dateObj.ok
                   THEN SetProp(st.newRow, "_year", NumV(GetFullYear(dateObj, tz), 0))
                   ELSE st.newRow]
  ELSE st

\* 3. Capital Social
RuleCapital(upperKey, st) ==
  IF IsCapitalKey(upperKey) /\ st.val.t \notin {"null", "undefined"}
  THEN LET parsed == IF IsString(st.val)
                     THEN ParseFloat(ReplaceFirstComma(RemovePeriods(StripNonCurrency(st.val.s))))
                     ELSE st.val
       IN [val |-> IF IsNumber(parsed) THEN StrV(FormatCurrency(parsed)) ELSE parsed,
           newRow |-> SetProp(st.newRow, "_raw_capital",
                              IF IsNumber(parsed) THEN parsed ELSE NumV(0, 0))]
  ELSE st

\* The partners rule with an else branch that resets the list only.
RuleSociosStaleCount(upperKey, st) ==
  IF IsSociosKey(upperKey)
  THEN IF IsString(st.val)
       THEN LET socios == FilterNonEmpty(MapTrim(Split(st.val.s))) IN
            [val |-> StrV(Join(socios, "; ")),
             newRow |-> SetProp(SetProp(st.newRow, "_socios_list", ArrV(socios)),
                                "_socios_count", NumV(Len(socios), 0))]
       ELSE [st EXCEPT !.newRow = SetProp(st.newRow, "_socios_list", ArrV(<<>>))]
  ELSE st

\* 4. Socios
RuleSocios(upperKey, st) ==
  IF IsSociosKey(upperKey)
  THEN IF IsString(st.val)
       THEN LET socios == FilterNonEmpty(MapTrim(Split(st.val.s))) IN
            [val |-> StrV(Join(socios, "; ")),
             newRow |-> SetProp(SetProp(st.newRow, "_socios_list", ArrV(socios)),
                                "_socios_count", NumV(Len(socios), 0))]
       ELSE [st EXCEPT !.newRow = SetProp(SetProp(st.newRow, "_socios_list", ArrV(<<>>)),
                                          "_socios_count", NumV(0, 0))]
  ELSE st

\* 5. CNAE principal
RuleCnaePrincipal(upperKey, st) ==
  IF IsCnaePrincipalKey(upperKey)
  THEN [st EXCEPT !.newRow = SetProp(st.newRow, "_cnae_principal", st.val)]
  ELSE st

\* 5. CNAE secundario
RuleCnaeSecundario(upperKey, st) ==
  IF IsCnaeSecundarioKey(upperKey)
  THEN IF IsString(st.val)
       THEN LET cnaes == FilterNonEmpty(MapTrim(Split(st.val.s))) IN
            [st EXCEPT !.newRow = SetProp(SetProp(st.newRow, "_cnae_sec_list", ArrV(cnaes)),
                                          "_cnae_sec_count", NumV(Len(cnaes), 0))]
       ELSE [st EXCEPT !.newRow = SetProp(SetProp(st.newRow, "_cnae_sec_list", ArrV(<<>>)),
                                          "_cnae_sec_count", NumV(0, 0))]
  ELSE st

\* The UF rule that keeps the region an earlier column gave.
RuleUFKeepFirst(upperKey, st) ==
  IF IsUfKey(upperKey) /\ ~HasProp(st.newRow, "_uf")
  THEN [st EXCEPT !.newRow = SetProp(st.newRow, "_uf", StrV(Trim(ToUpperCase(JsString(st.val)))))]
  ELSE st

\* The UF rule without trim().
RuleUFNoTrim(upperKey, st) ==
  IF IsUfKey(upperKey)
  THEN [st EXCEPT !.newRow = SetProp(st.newRow, "_uf", StrV(ToUpperCase(JsString(st.val))))]
  ELSE st

\* 6. UF
RuleUF(upperKey, st) ==
  IF IsUfKey(upperKey)
  THEN [st EXCEPT !.newRow = SetProp(st.newRow, "_uf", StrV(Trim(ToUpperCase(JsString(st.val)))))]
  ELSE st

\* One iteration of keys.forEach: the six rules in order, then newRow[key] = val.
ProcessKey(newRow, key, rawVal, tz) ==
  LET upperKey == ToUpperCase(key)
      s0 == [val |-> rawVal, newRow |-> newRow]
      s1 == RuleCNPJ(upperKey, s0)
      s2 == RuleDate(upperKey, rawVal, tz, s1)
      s3 == RuleCapital(upperKey, s2)
      s4 == RuleSocios(upperKey, s3)
      s5 == RuleCnaePrincipal(upperKey, s4)
      s6 == RuleCnaeSecundario(upperKey, s5)
      s7 == RuleUF(upperKey, s6)
  IN SetProp(s7.newRow, key, s7.val)

\* keys.forEach over the first n keys of row, starting from newRow = {}.
RECURSIVE NormalizeKeys(_, _, _)
NormalizeKeys(row, n, tz) ==
  IF n = 0 THEN <<>>
  ELSE ProcessKey(NormalizeKeys(row, n - 1, tz), row[n].k, row[n].v, tz)

\* The map callback of results.data: one raw row to its normalized row.
NormalizeRow(row, tz) == NormalizeKeys(row, Len(row), tz)

\* results.data.map(...)
NormalizeRows(rows, tz) == [i \in 1..Len(rows) |-> NormalizeRow(rows[i], tz)]

(***************************************************************************)
(* Arrays of records. An item of an array of records is                    *)
(*   ref : the position in the caller's array of the object the item is,   *)
(*         0 when the item is an object made during the call               *)
(*   src : the position of the record the item is or was made from         *)
(*   row : the fields of the object                                        *)
(***************************************************************************)

Max(a, b) == IF a >= b THEN a ELSE b
Min(a, b) == IF a <= b THEN a ELSE b

\* v || 0
OrZero(v) == IF Truthy(v) THEN v ELSE NumV(0, 0)

\* The numerator of the number v over the denominator 10^e.
Scaled(v, e) == v.m * Pow10(e - v.e)

\* a - b
NumSub(a, b) ==
  IF a.nan \/ b.nan THEN NaNV
  ELSE LET e == Max(a.e, b.e) IN NumV(Scaled(a, e) - Scaled(b, e), e)

\* a + b
NumAdd(a, b) ==
  IF a.nan \/ b.nan THEN NaNV
  ELSE LET e == Max(a.e, b.e) IN NumV(Scaled(a, e) + Scaled(b, e), e)

\* [...data]: a new array holding the objects of data.
SpreadArray(data) == [i \in 1..Len(data) |-> [ref |-> i, src |-> i, row |-> data[i]]]

\* The items of an array, the domain of the callbacks given to its methods.
Items(arr) == {arr[i] : i \in 1..Len(arr)}

\* Array.prototype.sort(compare), which is stable: an item comes after the
\* items that compare smaller and after the earlier items that compare equal.
\* compare is the comparator, a function of two items.
Sort(arr, compare) ==
  LET Before(j, i) == \/ compare[arr[j], arr[i]] < 0
                      \/ compare[arr[j], arr[i]] = 0 /\ j < i
      ranked == {<<1 + Cardinality({j \in 1..Len(arr) : Before(j, i)}), i>> : i \in 1..Len(arr)}
  IN [k \in 1..Len(arr) |-> arr[(CHOOSE p \in ranked : p[1] = k)[2]]]

\* arr.slice(0, n)
Slice(arr, n) == SubSeq(arr, 1, Min(n, Len(arr)))

\* str.substring(0, n)
Substring(str, n) == SubSeq(str, 1, Min(n, Len(str)))

\* Array.prototype.find(test): the first position of arr whose item passes
\* the test, 0 when none does. test is the callback, a function of an item.
FindIndex(arr, test) ==
  LET hits == {i \in 1..Len(arr) : test[arr[i]]} IN
  IF hits = {} THEN 0 ELSE CHOOSE i \in hits : \A j \in hits : i <= j

\* arr.some(test)
Some(arr, test) == \E i \in 1..Len(arr) : test[arr[i]]

\* arr.filter(test): a new array of the items that pass.
Filter(arr, test) ==
  LET Passes(item) == test[item] IN SelectSeq(arr, Passes)

(***************************************************************************)
(* The aggregators. Each returns the array it computed (result) and the    *)
(* array it was given as the call leaves it (data).                        *)
(***************************************************************************)

\* slice(0, 10), substring(0, 20) and slice(0, 27)
TopN == 10
NameLength == 20
MaxRegionsShown == 27

\* The reference codes of financial services, from '../constants'.
CNAE_LIST ==
  <<[code |-> "6611-8/01", desc |-> "Bolsa de valores"],
    [code |-> "6612-6/01", desc |-> "Corretoras de titulos e valores mobiliarios"],
    [code |-> "6619-3/99", desc |-> "Outras atividades auxiliares dos servicos financeiros"]>>

\* The legal natures offered as options, from '../constants': a code, a
\* dash and a description.
NATUREZA_JURIDICA_LIST ==
  <<"205-4 - Sociedade Anonima Fechada",
    "206-2 - Sociedade Empresaria Limitada",
    "213-5 - Empresario Individual">>

IsNameKey(k) ==
  ~StartsWith(k, "_") /\ (Includes(ToUpperCase(k), "RAZAO") \/ Includes(ToUpperCase(k), "NOME"))

\* The name of a chart point: the first RAZAO/NOME column, else the first
\* key of the row, cut to 20 characters.
ChartName(row) ==
  LET keys == ObjectKeys(row)
      found == FindIndex(keys, [k \in Items(keys) |-> IsNameKey(k)])
      cell == IF found > 0 THEN GetProp(row, keys[found])
              ELSE IF Len(keys) > 0 THEN GetProp(row, keys[1]) ELSE Undefined
  IN Substring(IF Truthy(cell) THEN JsString(cell) ELSE "Sem Nome", NameLength) \o "..."

\* (a, b) => (b['_raw_capital'] || 0) - (a['_raw_capital'] || 0)
CompareCapital(a, b) ==
  NumSub(OrZero(GetProp(b.row, "_raw_capital")), OrZero(GetProp(a.row, "_raw_capital"))).m

CapitalPoint(item) ==
  [name |-> ChartName(item.row),
   value |-> OrZero(GetProp(item.row, "_raw_capital")),
   fullData |-> item]

\* getTopCapital with data.sort(...) in place of [...data].sort(...).
GetTopCapitalInPlace(data) ==
  LET spread == SpreadArray(data)
      sorted == Sort(spread, [a, b \in Items(spread) |-> CompareCapital(a, b)])
      top == Slice(sorted, TopN)
  IN [result |-> [k \in 1..Len(top) |-> CapitalPoint(top[k])],
      data |-> [k \in 1..Len(sorted) |-> sorted[k].row]]

\* getTopCapital with an ascending comparator.
GetTopCapitalAscending(data) ==
  LET spread == SpreadArray(data)
      sorted == Sort(spread, [a, b \in Items(spread) |-> CompareCapital(b, a)])
      top == Slice(sorted, TopN)
  IN [result |-> [k \in 1..Len(top) |-> CapitalPoint(top[k])],
      data |-> data]

GetTopCapital(data) ==
  LET spread == SpreadArray(data)
      sorted == Sort(spread, [a, b \in Items(spread) |-> CompareCapital(a, b)])
      top == Slice(sorted, TopN)
  IN [result |-> [k \in 1..Len(top) |-> CapitalPoint(top[k])],
      data |-> data]

\* new Set(CNAE_LIST.map(c => c.code.replace(/\D/g, '')))
FinancialCNAESet == {StripNonDigits(CNAE_LIST[i].code) : i \in 1..Len(CNAE_LIST)}

\* reduce over a Set of the list's items: a repeated code counts once.
FinancialCountDistinct(row) ==
  LET cell == GetProp(row, "_cnae_sec_list")
      secList == IF Truthy(cell) THEN cell.l ELSE <<>>
  IN Cardinality({StripNonDigits(secList[k]) : k \in 1..Len(secList)} \cap FinancialCNAESet)

\* secList.reduce(...): the items whose digits are a reference code.
FinancialCount(row) ==
  LET cell == GetProp(row, "_cnae_sec_list")
      secList == IF Truthy(cell) THEN cell.l ELSE <<>>
  IN Cardinality({k \in 1..Len(secList) : StripNonDigits(secList[k]) \in FinancialCNAESet})

\* { ...row, _financial_count: financialCount }: a new object.
WithFinancialCount(item) ==
  [ref |-> 0, src |-> item.src,
   row |-> SetProp(item.row, "_financial_count", NumV(FinancialCount(item.row), 0))]

\* (a, b) => b._financial_count - a._financial_count
CompareFinancialCount(a, b) ==
  NumSub(GetProp(b.row, "_financial_count"), GetProp(a.row, "_financial_count")).m

FinancialPoint(item) ==
  [name |-> ChartName(item.row),
   value |-> GetProp(item.row, "_financial_count"),
   fullData |-> item]

GetTopCNAESecundary(data) ==
  LET spread == SpreadArray(data)
      counted == [i \in 1..Len(spread) |-> WithFinancialCount(spread[i])]
      top == Slice(Sort(counted, [a, b \in Items(counted) |-> CompareFinancialCount(a, b)]), TopN)
  IN [result |-> [k \in 1..Len(top) |-> FinancialPoint(top[k])],
      data |-> data]

\* new Date().getFullYear() at the time of writing.
CurrentYear == 2026

\* The body of data.forEach in getCapitalTrend on one row: trendMap is a
\* sequence of [name, value] entries in insertion order.
TrendStep(trendMap, row) ==
  LET year == GetProp(row, "_year")
      capital == GetProp(row, "_raw_capital")
      key == JsString(year)
      at == FindIndex(trendMap, [entry \in Items(trendMap) |-> entry.name = key])
  IN IF /\ Truthy(year) /\ Truthy(capital)
        /\ NumSub(year, NumV(1900, 0)).m > 0
        /\ NumSub(year, NumV(CurrentYear, 0)).m <= 0
     THEN IF at = 0
          THEN Append(trendMap, [name |-> key, value |-> NumAdd(NumV(0, 0), capital)])
          ELSE [trendMap EXCEPT ![at].value = NumAdd(OrZero(trendMap[at].value), capital)]
     ELSE trendMap

\* An integer-like property name: Object.entries lists these first, in
\* ascending numeric order, and the other names after them in insertion order.
IsIndexKey(name) ==
  AllDigits(name) /\ (Len(name) = 1 \/ CharAt(name, 1) # "0")

CompareIndexKeys(a, b) == DigitsToInt(a.name) - DigitsToInt(b.name)

IsIndexEntry(entry) == IsIndexKey(entry.name)
IsNamedEntry(entry) == ~IsIndexKey(entry.name)

\* Object.entries(map).map(([name, value]) => ({ name, value }))
ObjectEntries(map) ==
  LET indexed == SelectSeq(map, IsIndexEntry) IN
  Sort(indexed, [a, b \in Items(indexed) |-> CompareIndexKeys(a, b)])
    \o SelectSeq(map, IsNamedEntry)

\* parseInt of a name: the number its leading digits denote.
ParseInt(name) == DigitsToInt(DigitPrefix(name))

\* (a, b) => parseInt(a.name) - parseInt(b.name)
CompareYears(a, b) == ParseInt(a.name) - ParseInt(b.name)

\* data.forEach(...) of getCapitalTrend over the first n rows.
RECURSIVE TrendMap(_, _)
TrendMap(data, n) ==
  IF n = 0 THEN <<>> ELSE TrendStep(TrendMap(data, n - 1), data[n])

GetCapitalTrend(data) ==
  LET entries == ObjectEntries(TrendMap(data, Len(data))) IN
  [result |-> Sort(entries, [a, b \in Items(entries) |-> CompareYears(a, b)]),
   data |-> data]

IsExactUfKey(k) == ToUpperCase(k) = "UF" \/ ToUpperCase(k) = "ESTADO"

\* row['_uf'], or the cell of the first column named UF or ESTADO when _uf
\* is empty or missing.
RowUf(row) ==
  LET uf == GetProp(row, "_uf")
      keys == ObjectKeys(row)
      ufKey == FindIndex(keys, [k \in Items(keys) |-> IsExactUfKey(k)])
  IN IF ~Truthy(uf) /\ ufKey > 0 THEN GetProp(row, keys[ufKey]) ELSE uf

\* The body of data.forEach in getGeoDistribution on one row.
GeoStep(geoMap, row) ==
  LET uf == RowUf(row)
      at == FindIndex(geoMap, [entry \in Items(geoMap) |-> entry.name = uf.s])
  IN IF Truthy(uf) /\ IsString(uf) /\ Len(uf.s) = 2
     THEN IF at = 0
          THEN Append(geoMap, [name |-> uf.s, value |-> 1])
          ELSE [geoMap EXCEPT ![at].value = geoMap[at].value + 1]
     ELSE geoMap

RECURSIVE GeoMap(_, _)
GeoMap(data, n) ==
  IF n = 0 THEN <<>> ELSE GeoStep(GeoMap(data, n - 1), data[n])

\* (a, b) => b.value - a.value
CompareCounts(a, b) == b.value - a.value

\* getGeoDistribution without slice(0, 27).
GetGeoDistributionNoSlice(data) ==
  LET entries == ObjectEntries(GeoMap(data, Len(data))) IN
  [result |-> Sort(entries, [a, b \in Items(entries) |-> CompareCounts(a, b)]),
   data |-> data]

GetGeoDistribution(data) ==
  LET entries == ObjectEntries(GeoMap(data, Len(data))) IN
  [result |-> Slice(Sort(entries, [a, b \in Items(entries) |-> CompareCounts(a, b)]),
                    MaxRegionsShown),
   data |-> data]

(***************************************************************************)
(* The App's advanced filter effect                                        *)
(***************************************************************************)

\* The test of the CNAE filter without its look at the secondary list.
MatchesCnaesPrimaryOnly(row, cnaes) ==
  LET principal == GetProp(row, "_cnae_principal")
      p == IF Truthy(principal) THEN JsString(principal) ELSE ""
      CodeMatches(code) == Includes(StripNonDigits(p), StripNonDigits(code))
  IN Some(cnaes, [code \in Items(cnaes) |-> CodeMatches(code)])

\* The test of the unified CNAE filter on one row.
MatchesCnaes(row, cnaes) ==
  LET principal == GetProp(row, "_cnae_principal")
      p == IF Truthy(principal) THEN JsString(principal) ELSE ""
      secs == GetProp(row, "_cnae_sec_list")
      sList == IF secs.t = "array" THEN secs.l ELSE <<>>
      CodeMatches(code) ==
        LET cleanCode == StripNonDigits(code)
            SecMatches(sec) == Includes(StripNonDigits(sec), cleanCode)
        IN Includes(StripNonDigits(p), cleanCode)
             \/ Some(sList, [sec \in Items(sList) |-> SecMatches(sec)])
  IN Some(cnaes, [code \in Items(cnaes) |-> CodeMatches(code)])

\* The test of the UF filter on one row: ufs.includes(uf).
MatchesUfs(row, ufs) ==
  LET uf == RowUf(row)
  IN Some(ufs, [selected \in Items(ufs) |-> uf = StrV(selected)])

IsNaturezaKey(k) ==
  Includes(ToUpperCase(k), "NATUREZA") \/ Includes(ToUpperCase(k), "JURIDICA")

\* The test of the Natureza Juridica filter with the whole option in place
\* of its code.
MatchesNaturezasWholeOption(row, naturezas) ==
  LET keys == ObjectKeys(row)
      natKey == FindIndex(keys, [k \in Items(keys) |-> IsNaturezaKey(k)])
      rowValue == ToUpperCase(JsString(GetProp(row, keys[natKey])))
  IN natKey > 0 /\ Some(naturezas, [n \in Items(naturezas) |-> Includes(rowValue, n)])

\* The test of the Natureza Juridica filter on one row.
MatchesNaturezas(row, naturezas) ==
  LET keys == ObjectKeys(row)
      natKey == FindIndex(keys, [k \in Items(keys) |-> IsNaturezaKey(k)])
      rowValue == ToUpperCase(JsString(GetProp(row, keys[natKey])))
      OptionMatches(n) ==
        LET dash == IndexOfChar(n, "-")
            code == Trim(IF dash = 0 THEN n ELSE SubSeq(n, 1, dash - 1))
        IN Includes(rowValue, code)
  IN natKey > 0 /\ Some(naturezas, [n \in Items(naturezas) |-> OptionMatches(n)])

\* The filter effect without its tests for an empty selection.
FilterRowsAlways(data, filters) ==
  LET ByCnaes(arr) == [item \in Items(arr) |-> MatchesCnaes(item.row, filters.cnaes)]
      ByUfs(arr) == [item \in Items(arr) |-> MatchesUfs(item.row, filters.ufs)]
      ByNaturezas(arr) == [item \in Items(arr) |-> MatchesNaturezas(item.row, filters.naturezas)]
      r0 == SpreadArray(data)
      r1 == Filter(r0, ByCnaes(r0))
      r2 == Filter(r1, ByUfs(r1))
      r3 == Filter(r2, ByNaturezas(r2))
  IN [result |-> r3, data |-> data]

\* The filter effect with each filter run on data instead of res.
FilterRowsOnData(data, filters) ==
  LET ByCnaes(arr) == [item \in Items(arr) |-> MatchesCnaes(item.row, filters.cnaes)]
      ByUfs(arr) == [item \in Items(arr) |-> MatchesUfs(item.row, filters.ufs)]
      ByNaturezas(arr) == [item \in Items(arr) |-> MatchesNaturezas(item.row, filters.naturezas)]
      r0 == SpreadArray(data)
      r1 == IF Len(filters.cnaes) > 0 THEN Filter(r0, ByCnaes(r0)) ELSE r0
      r2 == IF Len(filters.ufs) > 0 THEN Filter(r0, ByUfs(r0)) ELSE r1
      r3 == IF Len(filters.naturezas) > 0 THEN Filter(r0, ByNaturezas(r0)) ELSE r2
  IN [result |-> r3, data |-> data]

\* The filter effect: res starts as data and each non-empty selection
\* filters it. Returns res and data as the effect leaves it.
FilterRows(data, filters) ==
  LET ByCnaes(arr) == [item \in Items(arr) |-> MatchesCnaes(item.row, filters.cnaes)]
      ByUfs(arr) == [item \in Items(arr) |-> MatchesUfs(item.row, filters.ufs)]
      ByNaturezas(arr) == [item \in Items(arr) |-> MatchesNaturezas(item.row, filters.naturezas)]
      r0 == SpreadArray(data)
      r1 == IF Len(filters.cnaes) > 0 THEN Filter(r0, ByCnaes(r0)) ELSE r0
      r2 == IF Len(filters.ufs) > 0 THEN Filter(r1, ByUfs(r1)) ELSE r1
      r3 == IF Len(filters.naturezas) > 0 THEN Filter(r2, ByNaturezas(r2)) ELSE r2
  IN [result |-> r3, data |-> data]

(***************************************************************************)
(* State                                                                   *)
(***************************************************************************)

VARIABLES
  tz,                  \* the local time zone of the browser, hours from UTC
  rawRow,              \* one row of results.data given to the map callback
  cleanedRow,          \* the row the map callback returned for rawRow
  mapped,              \* whether the map callback has run on rawRow
  effectRuns,          \* how many times React has run the App's load effect
  hasLoaded,           \* App: hasLoaded.current
  loading,             \* App: loading
  error,               \* App: error ("" is null)
  data,                \* App: data
  filteredData,        \* App: filteredData
  totalRecords,        \* App: totalRecords
  allDataAccumulator,  \* loadData: allDataAccumulator
  pc,                  \* where the load stands
  gidIndex,            \* fetchSheetData: the position of gid in SHEET_GIDS
  served,              \* the network: what it answered for each gid so far
  result,              \* fetchSheetData: result, the rows parsed from csvText
  allData,             \* fetchSheetData: allData
  promise,             \* the promise fetchSheetData returned
  activeFilters,       \* App: activeFilters, the three selections
  filterStale,         \* whether the filter effect is due (a dependency changed)
  chart,               \* the last aggregator call: its name and what it returned
  favoriteIds,         \* App: favoriteIds as the handlers of the last render see it
  pendingFavs,         \* the value given to setFavoriteIds that React has yet to render
  storage,             \* localStorage: the item 'company_favorites'
  favLoaded,           \* whether the load favorites effect has run
  startFavs,           \* the identifiers the load favorites effect read
  toggledOdd,          \* the identifiers toggled an odd number of times
  toggleCount,         \* how many toggles the user has made
  showFavoritesOnly,   \* App: showFavoritesOnly
  isExporting,         \* App: isExporting
  exportPc,            \* where the export stands
  exportRequests,      \* how many times the user has asked for an export
  alertText            \* the last message given to alert ("" is none)

normVars == <<rawRow, cleanedRow, mapped>>
appVars == <<effectRuns, hasLoaded, loading, error, data, filteredData, totalRecords,
             allDataAccumulator>>
loaderVars == <<pc, gidIndex, served, result, allData, promise>>
chartVars == <<activeFilters, filterStale, chart>>
favVars == <<favoriteIds, pendingFavs, storage, favLoaded, startFavs, toggledOdd, toggleCount>>
exportVars == <<showFavoritesOnly, isExporting, exportPc, exportRequests, alertText>>
uiVars == <<favVars, exportVars>>
vars == <<tz, normVars, appVars, loaderVars, chartVars, uiVars>>

\* Bounds of the exploration.
MaxEffectRuns == 2
MaxCols == 2

\* Time zones the browser may run in: Brasilia and UTC.
TimeZones == {-3, 0}

(***************************************************************************)
(* The dataset loader, fetchSheetData                                      *)
(***************************************************************************)

SHEET_GIDS == <<"1578193024", "287609093", "1298660928">>

NoDataMessage == "Nenhum dado encontrado. Verifique se a planilha está pública e acessível."

Cell(key, value) == [k |-> key, v |-> value]

\* What a sheet may answer with: the text of the body, whether the page
\* really is an HTML page rather than data, and the rows Papa.parse gives
\* for the text (header: true, dynamicTyping: true, skipEmptyLines).
LoginPage ==
  [text |-> "<!DOCTYPE html><html><body>login</body></html>", html |-> TRUE,
   rows |-> <<>>]
UpperCaseLoginPage ==
  [text |-> "<HTML>\n<BODY>login</BODY>", html |-> TRUE,
   rows |-> << <<Cell("<HTML>", StrV("<BODY>login</BODY>"))>> >>]
HeaderOnlyCsv ==
  [text |-> "UF,CAPITAL SOCIAL", html |-> FALSE, rows |-> <<>>]
OneRowCsv ==
  [text |-> "UF,CAPITAL SOCIAL,DATA INICIO\nsp,\"R$ 1.234,56\",2020-01-01", html |-> FALSE,
   rows |-> << <<Cell("UF", StrV("sp")), Cell("CAPITAL SOCIAL", StrV("R$ 1.234,56")),
                 Cell("DATA INICIO", StrV("2020-01-01"))>> >>]
ThreeRowCsv ==
  [text |-> "CNPJ,SOCIOS\n191,Ana; Beto;\n272,\n353,Caio", html |-> FALSE,
   rows |-> << <<Cell("CNPJ", NumV(191, 0)), Cell("SOCIOS", StrV("Ana; Beto;"))>>,
               <<Cell("CNPJ", NumV(272, 0)), Cell("SOCIOS", Null)>>,
               <<Cell("CNPJ", NumV(353, 0)), Cell("SOCIOS", StrV("Caio"))>> >>]
CsvWithHtmlTag ==
  [text |-> "RAZAO SOCIAL,UF\n<html> Ltda,RJ", html |-> FALSE,
   rows |-> << <<Cell("RAZAO SOCIAL", StrV("<html> Ltda")), Cell("UF", StrV("RJ"))>> >>]

NoBody == [text |-> "", html |-> FALSE, rows |-> <<>>]

\* The answers by name.
BodyNames ==
  {"LoginPage", "UpperCaseLoginPage", "HeaderOnlyCsv", "OneRowCsv", "ThreeRowCsv",
   "CsvWithHtmlTag"}

Body(name) ==
  CASE name = "LoginPage" -> LoginPage
    [] name = "UpperCaseLoginPage" -> UpperCaseLoginPage
    [] name = "HeaderOnlyCsv" -> HeaderOnlyCsv
    [] name = "OneRowCsv" -> OneRowCsv
    [] name = "ThreeRowCsv" -> ThreeRowCsv
    [] name = "CsvWithHtmlTag" -> CsvWithHtmlTag
    [] OTHER -> NoBody

\* What the network does with one fetch: fetch rejects, the response is not
\* ok, reading the body rejects, or the named body arrives.
Outcomes ==
  {[kind |-> k, body |-> "none"] : k \in {"network_error", "http_error", "body_error"}}
    \cup {[kind |-> "body", body |-> b] : b \in BodyNames}

\* csvText.trim().toLowerCase().startsWith('<!doctype html') || csvText.includes('<html')
IsHtmlBody(csvText) ==
  \/ StartsWith(ToLowerCase(Trim(csvText)), "<!doctype html")
  \/ Includes(csvText, "<html")

\* results.data of Papa.parse(csvText, ...) for the bodies above.
PapaParse(body) == body.rows

\* The end of the function without the throw.
FinalCheckNeverThrows(rows) == [status |-> "fulfilled", value |-> rows, reason |-> ""]

\* The end of the function: throw when nothing was loaded, else return allData.
FinalCheck(rows) ==
  IF Len(rows) = 0
  THEN [status |-> "rejected", value |-> <<>>, reason |-> NoDataMessage]
  ELSE [status |-> "fulfilled", value |-> rows, reason |-> ""]

Pending == [status |-> "pending", value |-> <<>>, reason |-> ""]

\* The end of one iteration of the for loop (by continue, by the catch or by
\* falling through) with allData = rows: the next gid is fetched, or the
\* loop ends and the function settles its promise.
NextSource(rows) ==
  /\ allData' = rows
  /\ result' = <<>>
  /\ IF gidIndex < Len(SHEET_GIDS)
     THEN /\ gidIndex' = gidIndex + 1
          /\ pc' = "await_fetch"
          /\ promise' = promise
     ELSE /\ gidIndex' = gidIndex
          /\ pc' = "settled"
          /\ promise' = FinalCheck(rows)

\* await fetch(fetchUrl(gid)) settles.
FetchSettles ==
  /\ pc = "await_fetch"
  /\ \E o \in Outcomes :
       /\ served' = Append(served, o)
       /\ IF o.kind \in {"network_error", "http_error"}
          THEN NextSource(allData)
          ELSE pc' = "await_text" /\ UNCHANGED <<gidIndex, result, allData, promise>>
  /\ UNCHANGED <<tz, chartVars, uiVars, normVars, appVars>>

\* await response.text() settles; the HTML check and Papa.parse run, and
\* the promise of the parse is awaited.
TextSettles ==
  /\ pc = "await_text"
  /\ LET o == served[gidIndex] IN
       IF o.kind = "body_error" \/ IsHtmlBody(Body(o.body).text)
       THEN NextSource(allData)
       ELSE /\ result' = NormalizeRows(PapaParse(Body(o.body)), tz)
            /\ pc' = "await_parse"
            /\ UNCHANGED <<gidIndex, allData, promise>>
  /\ UNCHANGED <<tz, chartVars, uiVars, normVars, appVars, served>>

\* arr.unshift(...items)
PushFront(arr, items) == items \o arr

\* arr.push(...items)
Push(arr, items) == arr \o items

\* The rows fetchSheetData hands to its chunk callback once a sheet is parsed.
DeliverChunk(rows) == rows

\* The chunk callback of loadData: an empty chunk is ignored; the rows go to
\* allDataAccumulator and, when more than 100 ms have passed since the last
\* update, the counter on screen grows.
OnChunk(chunk, elapsed) ==
  IF Len(chunk) = 0
  THEN UNCHANGED <<allDataAccumulator, totalRecords>>
  ELSE /\ allDataAccumulator' = Push(allDataAccumulator, chunk)
       /\ totalRecords' = IF elapsed THEN totalRecords + Len(chunk) ELSE totalRecords

\* The promise of the parse settles: allData.push(...result), and the rows
\* are delivered to the caller.
ParseSettles ==
  /\ pc = "await_parse"
  /\ \E elapsed \in BOOLEAN : OnChunk(DeliverChunk(result), elapsed)
  /\ NextSource(Push(allData, result))
  /\ UNCHANGED <<tz, chartVars, uiVars, normVars, served>>
  /\ UNCHANGED <<effectRuns, hasLoaded, loading, error, data, filteredData>>

(***************************************************************************)
(* The App component's load effect                                         *)
(***************************************************************************)

\* React runs the effect (twice under StrictMode). The hasLoaded guard lets
\* the first run only start loadData, which runs up to its first await: the
\* fetch of the first gid.
RunEffect ==
  /\ effectRuns < MaxEffectRuns
  /\ effectRuns' = effectRuns + 1
  /\ IF hasLoaded
     THEN UNCHANGED <<hasLoaded, loading, data, allDataAccumulator, loaderVars>>
     ELSE /\ hasLoaded' = TRUE
          /\ loading' = TRUE
          /\ data' = <<>>
          /\ allDataAccumulator' = <<>>
          /\ allData' = <<>>
          /\ gidIndex' = 1
          /\ pc' = "await_fetch"
          /\ UNCHANGED <<served, result, promise>>
  /\ UNCHANGED <<tz, chartVars, uiVars, normVars, error, filteredData, totalRecords>>

\* loadData with setLoading(false) at the end of the try block instead of in
\* a finally.
LoadDataResumesNoFinally ==
  /\ pc = "settled"
  /\ pc' = "done"
  /\ IF promise.status = "fulfilled"
     THEN /\ data' = allDataAccumulator
          /\ filteredData' = allDataAccumulator
          /\ totalRecords' = Len(allDataAccumulator)
          /\ loading' = FALSE
          /\ error' = error
     ELSE /\ error' = promise.reason
          /\ UNCHANGED <<data, filteredData, totalRecords, loading>>
  /\ UNCHANGED <<tz, chartVars, uiVars, normVars, effectRuns, hasLoaded, allDataAccumulator>>
  /\ UNCHANGED <<gidIndex, served, result, allData, promise>>

\* await fetchSheetData(...) resumes loadData: the final update of the
\* state, or the catch, and then the finally.
LoadDataResumes ==
  /\ pc = "settled"
  /\ pc' = "done"
  /\ IF promise.status = "fulfilled"
     THEN /\ data' = allDataAccumulator
          /\ filteredData' = allDataAccumulator
          /\ totalRecords' = Len(allDataAccumulator)
          /\ error' = error
     ELSE /\ error' = promise.reason
          /\ UNCHANGED <<data, filteredData, totalRecords>>
  /\ loading' = FALSE
  /\ UNCHANGED <<tz, chartVars, uiVars, normVars, effectRuns, hasLoaded, allDataAccumulator>>
  /\ UNCHANGED <<gidIndex, served, result, allData, promise>>

\* The component as mounted, before any effect has run.
AppInit ==
  /\ effectRuns = 0
  /\ hasLoaded = FALSE
  /\ loading = TRUE
  /\ error = ""
  /\ data = <<>>
  /\ filteredData = <<>>
  /\ totalRecords = 0
  /\ allDataAccumulator = <<>>

LoaderInit ==
  /\ pc = "idle"
  /\ gidIndex = 0
  /\ served = <<>>
  /\ result = <<>>
  /\ allData = <<>>
  /\ promise = Pending

NormIdle ==
  /\ rawRow = <<>>
  /\ cleanedRow = <<>>
  /\ mapped = FALSE

\* No selection (App.tsx useState), no filter effect due, no aggregator called.
NoFilters == [cnaes |-> <<>>, ufs |-> <<>>, naturezas |-> <<>>]

NoChart == [fn |-> "", points |-> <<>>]

ChartIdle ==
  /\ activeFilters = NoFilters
  /\ filterStale = FALSE
  /\ chart = NoChart

\* No update of favoriteIds waits for a render.
NoPending == [due |-> FALSE, favs |-> <<>>]

\* localStorage without the item: getItem returns null.
NoItem == [t |-> "null", l |-> <<>>]

\* The App as mounted (useState): no favorites, all records shown, no export.
UiIdle ==
  /\ favoriteIds = <<>>
  /\ pendingFavs = NoPending
  /\ storage = NoItem
  /\ favLoaded = FALSE
  /\ startFavs = {}
  /\ toggledOdd = {}
  /\ toggleCount = 0
  /\ showFavoritesOnly = FALSE
  /\ isExporting = FALSE
  /\ exportPc = "idle"
  /\ exportRequests = 0
  /\ alertText = ""

Init ==
  /\ tz \in TimeZones
  /\ NormIdle
  /\ AppInit
  /\ LoaderInit
  /\ ChartIdle
  /\ UiIdle

Next ==
  \/ RunEffect
  \/ FetchSettles
  \/ TextSettles
  \/ ParseSettles
  \/ LoadDataResumes

Spec == Init /\ [][Next]_vars

(***************************************************************************)
(* The row normalizer on its own: the map callback applied to one row of   *)
(* results.data.                                                           *)
(***************************************************************************)

\* Currency texts in the Brazilian notation: an optional R$, the integer
\* part in groups of three separated by periods, a comma, two decimals.
CurrencyPrefixes == {"R$ ", "R$" \o NBSP, "R$", ""}
CurrencyUnits == {0, 12, 1234, 10000, 1234567}
CurrencyCents == {0, 5, 56}

CurrencyText(prefix, units, cents) ==
  prefix \o GroupThousands(IntToDigits(units)) \o "," \o PadStartZero(IntToDigits(cents), 2)

\* Each text with the amount it denotes, in cents.
CurrencySamples ==
  {[text |-> CurrencyText(p, u, c), cents |-> 100 * u + c] :
     p \in CurrencyPrefixes, u \in CurrencyUnits, c \in CurrencyCents}

CurrencyTexts == {sample.text : sample \in CurrencySamples}

CapitalValues ==
  {StrV(str) : str \in CurrencyTexts}
    \cup {StrV("1.000"), StrV("abc"), StrV("-50,00"), StrV("1,5,5"),
          NumV(5000, 0), NumV(123456, 2), NumV(-7, 0), NumV(0, 0), Null, BoolV(TRUE)}

DateValues ==
  {StrV("2020-05-01"), StrV("2023-01-01"), StrV("1899-12-31"), StrV("1900-06-15"),
   StrV("1850-01-01"), StrV("2999-06-15"), StrV("sem data"), NumV(2020, 0), NumV(0, 0), Null}

ListValues ==
  {StrV("Ana; Beto;"), StrV(";;"), StrV("Ana;Ana"), StrV(" ; Caio "), StrV("6612-6/01; 6619-3/99"),
   Null, NumV(3, 0), BoolV(TRUE)}

UfValues ==
  {StrV("sp"), StrV(" rj "), StrV("SP"), StrV("Sao Paulo"), StrV("s"), NumV(35, 0), Null,
   BoolV(FALSE)}

CnpjValues ==
  {StrV("12.345.678/0001-95"), StrV("123456789012345"), StrV("isento"), NumV(191, 0), Null}

\* The first column of a row: a column name with a cell it may hold.
MainColumns ==
  {Cell("Capital Social", v) : v \in CapitalValues}
    \cup {Cell("Data Inicio", v) : v \in DateValues}
    \cup {Cell("Data Capital", v) : v \in {StrV("2020-05-01"), StrV("R$ 5,00"), NumV(2020, 0)}}
    \cup {Cell("Socios", v) : v \in ListValues}
    \cup {Cell("CNAEs Secundarios", v) : v \in ListValues}
    \cup {Cell("CNAE Principal", v) : v \in {StrV("6611-8/01"), NumV(6611801, 0), Null}}
    \cup {Cell("UF", v) : v \in UfValues}
    \cup {Cell("Estado", v) : v \in {StrV("mg"), Null}}
    \cup {Cell("CNPJ", v) : v \in CnpjValues}
    \cup {Cell("Razao Social", v) : v \in {StrV("Banco X")}}

\* Further columns of a row.
OtherColumns ==
  {Cell("QSA", Null), Cell("Quadro Socios", StrV("Eva; Flavio")),
   Cell("Capital Inicial", StrV("abc")), Cell("Capital Inicial", NumV(100, 0)),
   Cell("Data Registro", StrV("2001-01-01")), Cell("Estado Sede", StrV("mg")),
   Cell("Atividade Secundaria", Null), Cell("Atividade Principal", StrV("4711-3/02"))}

DistinctKeys(row) == \A i, j \in 1..Len(row) : i # j => row[i].k # row[j].k

\* The sequences of at most n further columns with distinct names.
RECURSIVE OtherSeqs(_)
OtherSeqs(n) ==
  IF n = 0 THEN {<<>>}
  ELSE OtherSeqs(n - 1)
         \cup {Append(q, c) : q \in {r \in OtherSeqs(n - 1) : Len(r) = n - 1}, c \in OtherColumns}

\* The rows given to the normalizer: a main column before or after up to
\* MaxCols - 1 further columns.
RawRows ==
  {r \in {<<c>> \o q : c \in MainColumns, q \in OtherSeqs(MaxCols - 1)}
           \cup {q \o <<c>> : c \in MainColumns, q \in OtherSeqs(MaxCols - 1)} :
     DistinctKeys(r)}

NormInit ==
  /\ tz \in TimeZones
  /\ rawRow \in RawRows
  /\ cleanedRow = <<>>
  /\ mapped = FALSE
  /\ AppInit
  /\ LoaderInit
  /\ ChartIdle
  /\ UiIdle

\* The map callback runs on the row.
MapRow ==
  /\ ~mapped
  /\ mapped' = TRUE
  /\ cleanedRow' = NormalizeRow(rawRow, tz)
  /\ UNCHANGED <<tz, chartVars, uiVars, rawRow, appVars, loaderVars>>

NormNext == MapRow

NormSpec == NormInit /\ [][NormNext]_vars

(***************************************************************************)
(* The loaded App: the filter effect and the aggregators of the charts on  *)
(* a dataset that a load has put in data.                                  *)
(***************************************************************************)

\* Bounds of the exploration: the longest dataset built from the pool, and
\* the number of regions of the dataset of regions.
MaxRows == 11
MaxRegions == 28

Row7(name, capital, date, principal, secundarios, uf, natureza) ==
  <<Cell("Razao Social", name), Cell("Capital Social", capital), Cell("Data Inicio", date),
    Cell("CNAE Principal", principal), Cell("CNAEs Secundarios", secundarios),
    Cell("UF", uf), Cell("Natureza Juridica", natureza)>>

\* Rows of a sheet as Papa.parse gives them.
RawPool ==
  <<Row7(StrV("Alfa Investimentos"), StrV("R$ 10.000,00"), StrV("2020-05-01"),
         StrV("6611-8/01"), StrV("6612-6/01; 6619-3/99"), StrV("SP"),
         StrV("206-2 - Sociedade Empresaria Limitada")),
    Row7(StrV("Beta Corretora de Valores SA"), StrV("R$ 10.000,00"), StrV("2020-08-15"),
         StrV("4711-3/02"), StrV("6612-6/01; 6612-6/01; 4711-3/02"), StrV(" rj "),
         StrV("205-4 - Sociedade Anonima Fechada")),
    Row7(StrV("Gama"), NumV(0, 0), StrV("2023-03-10"), NumV(6611801, 0), Null, StrV("SP"), Null),
    Row7(StrV("Delta"), StrV("abc"), StrV("1899-12-31"), Null, StrV("66.12-6-01"),
         StrV("Sao Paulo"), StrV("206-2")),
    Row7(Null, NumV(25005, 1), StrV("2023-11-20"), StrV("6612-6/01"), Null, Null,
         StrV("213-5 - Empresario Individual")),
    <<Cell("Razao Social", StrV("Zeta")), Cell("UF", StrV("mg")), Cell("Estado Sede", StrV(" "))>>,
    <<Cell("Razao Social", StrV("Eta")), Cell("Capital Social", StrV("R$ 500,00")),
      Cell("Data Inicio", StrV("2999-06-15")), Cell("CNAEs Secundarios", StrV("6619-3/99")),
      Cell("Natureza", StrV("Sociedade Anonima")), Cell("Codigo Natureza Juridica", StrV("205-4"))>>,
    <<Cell("CNPJ", NumV(191, 0)), Cell("Nome Fantasia", StrV("Theta")),
      Cell("Capital Social", StrV("-50,00")), Cell("Data Inicio", StrV("1900-06-15")),
      Cell("UF", NumV(35, 0))>>,
    <<Cell("Razao Social", StrV("Iota")), Cell("Capital Social", StrV("R$ 0,50")),
      Cell("Data Inicio", StrV("2023-07-01")), Cell("UF", StrV("RJ"))>>>>

CapitalLetters == "ABCDEFGHIJKLMNOPQRSTUVWXYZ"

\* The k-th two-letter code: AA, AB, ...
RegionCode(k) ==
  CharAt(CapitalLetters, ((k - 1) \div Len(CapitalLetters)) + 1)
    \o CharAt(CapitalLetters, ((k - 1) % Len(CapitalLetters)) + 1)

\* A sheet over k regions with one or two rows each.
RECURSIVE RawRegionRows(_)
RawRegionRows(k) ==
  IF k = 0 THEN <<>>
  ELSE RawRegionRows(k - 1)
         \o [j \in 1..(1 + (k % 2)) |-> <<Cell("Razao Social", StrV(RegionCode(k))),
                                          Cell("UF", StrV(RegionCode(k)))>>]

\* The datasets a load leaves in data: every sequence of at most two
\* records of the pool, longer ones that run through the pool from a start
\* by a stride, and the dataset of regions.
Datasets(zone) ==
  LET pool == SubSeq(NormalizeRows(RawPool, zone), 1, Len(RawPool))
      Pick(n, start, stride) ==
        [i \in 1..n |-> pool[((start + (i - 1) * stride) % Len(pool)) + 1]]
  IN {<<>>}
       \cup {<<pool[a]>> : a \in 1..Len(pool)}
       \cup {<<pool[a], pool[b]>> : a, b \in 1..Len(pool)}
       \cup {Pick(n, start, stride) : n \in 3..MaxRows, start \in {0, 3, 6},
                                      stride \in {1, 4}}
       \cup {NormalizeRows(RawRegionRows(n), zone) : n \in (MaxRegions - 1)..MaxRegions}

\* The selections the user applies: codes of CNAE_LIST, regions of two
\* characters read from the dataset, entries of NATUREZA_JURIDICA_LIST.
FilterChoices ==
  {NoFilters,
   [NoFilters EXCEPT !.cnaes = <<CNAE_LIST[1].code, CNAE_LIST[2].code>>],
   [NoFilters EXCEPT !.ufs = <<"SP", "mg">>],
   [NoFilters EXCEPT !.naturezas = <<NATUREZA_JURIDICA_LIST[1], NATUREZA_JURIDICA_LIST[2]>>],
   [cnaes |-> <<CNAE_LIST[1].code, CNAE_LIST[2].code>>, ufs |-> <<"SP", "RJ">>,
    naturezas |-> <<NATUREZA_JURIDICA_LIST[1], NATUREZA_JURIDICA_LIST[2]>>]}

\* A load has completed with the dataset: the final update of loadData has
\* run and the filter effect is due because data changed.
AggInit ==
  /\ tz = -3
  /\ NormIdle
  /\ data \in Datasets(tz)
  /\ filteredData = data
  /\ allDataAccumulator = data
  /\ totalRecords = Len(data)
  /\ effectRuns = 1
  /\ hasLoaded = TRUE
  /\ loading = FALSE
  /\ promise = FinalCheck(data)
  /\ error = promise.reason
  /\ allData = data
  /\ pc = "done"
  /\ gidIndex = Len(SHEET_GIDS)
  /\ served = <<>>
  /\ result = <<>>
  /\ activeFilters = NoFilters
  /\ filterStale = TRUE
  /\ chart = NoChart
  /\ UiIdle

Rows(items) == [i \in 1..Len(items) |-> items[i].row]

\* The body of the filter effect with the selections filters:
\* setFilteredData(res). The charts drop what they computed from the former
\* filteredData (useMemo).
RunFilterEffect(filters) ==
  /\ LET r == FilterRows(data, filters) IN
       /\ filteredData' = Rows(r.result)
       /\ data' = r.data
  /\ chart' = NoChart
  /\ filterStale' = FALSE
  /\ UNCHANGED <<tz, uiVars, normVars, effectRuns, hasLoaded, loading, error, totalRecords,
                 allDataAccumulator, loaderVars>>

\* The filter effect runs after the load has changed data.
FilterEffect ==
  /\ filterStale
  /\ RunFilterEffect(activeFilters)
  /\ UNCHANGED activeFilters

\* The user applies a selection: setActiveFilters, and the filter effect
\* that the change makes due runs before React handles another event.
SetActiveFilters ==
  /\ ~filterStale
  /\ \E filters \in FilterChoices :
       /\ filters # activeFilters
       /\ activeFilters' = filters
       /\ RunFilterEffect(filters)

\* The charts, rendered once the effects have run, call an aggregator on the
\* filtered dataset.
Aggregate(fn, r) ==
  /\ ~filterStale
  /\ chart' = [fn |-> fn, points |-> r.result]
  /\ filteredData' = r.data
  /\ UNCHANGED <<tz, uiVars, normVars, effectRuns, hasLoaded, loading, error, data, totalRecords,
                 allDataAccumulator, loaderVars, activeFilters, filterStale>>

CallGetTopCapital == Aggregate("getTopCapital", GetTopCapital(filteredData))

CallGetTopCNAESecundary == Aggregate("getTopCNAESecundary", GetTopCNAESecundary(filteredData))

CallGetCapitalTrend == Aggregate("getCapitalTrend", GetCapitalTrend(filteredData))

CallGetGeoDistribution == Aggregate("getGeoDistribution", GetGeoDistribution(filteredData))

AggNext ==
  \/ SetActiveFilters
  \/ FilterEffect
  \/ CallGetTopCapital
  \/ CallGetTopCNAESecundary
  \/ CallGetCapitalTrend
  \/ CallGetGeoDistribution

AggSpec == AggInit /\ [][AggNext]_vars

(***************************************************************************)
(* The loaded App: the favorites and the PDF export. A Set is the sequence *)
(* of its members in insertion order.                                      *)
(***************************************************************************)

\* Bounds of the exploration: the toggles and the export requests the user
\* makes.
MaxToggles == 3
MaxExportRequests == 2

\* JSON.stringify of a cell.
JsonValue(v) ==
  CASE v.t = "string" -> "\"" \o v.s \o "\""
    [] v.t = "number" -> IF v.nan THEN "null" ELSE NumToString(v)
    [] v.t = "boolean" -> v.s
    [] v.t = "array" -> "[" \o Join([i \in 1..Len(v.l) |-> "\"" \o v.l[i] \o "\""], ",") \o "]"
    [] OTHER -> "null"

\* JSON.stringify(row): the properties in insertion order, those that are
\* undefined left out.
JsonStringify(row) ==
  LET IsDefined(entry) == entry.v.t # "undefined"
      defined == SelectSeq(row, IsDefined)
  IN "{" \o Join([i \in 1..Len(defined) |->
                     "\"" \o defined[i].k \o "\":" \o JsonValue(defined[i].v)], ",") \o "}"

\* getRowId: the cell of the first column whose name contains CNPJ, or the
\* JSON text of the row when there is no such column.
GetRowId(row) ==
  LET keys == ObjectKeys(row)
      cnpjKey == FindIndex(keys, [k \in Items(keys) |-> Includes(ToUpperCase(k), "CNPJ")])
  IN IF cnpjKey > 0 THEN GetProp(row, keys[cnpjKey]) ELSE StrV(JsonStringify(row))

\* Set.prototype.has, delete and add.
SetHas(set, id) == \E i \in 1..Len(set) : set[i] = id

SetDelete(set, id) ==
  LET Other(member) == member # id IN SelectSeq(set, Other)

SetAdd(set, id) == IF SetHas(set, id) THEN set ELSE Append(set, id)

\* new Set(iterable)
RECURSIVE NewSet(_)
NewSet(list) ==
  IF list = <<>> THEN <<>>
  ELSE SetAdd(NewSet(SubSeq(list, 1, Len(list) - 1)), list[Len(list)])

\* JSON.stringify(Array.from(set)): the item holds the JSON text of the
\* array; NaN and undefined members are written as null.
StringifyArray(list) ==
  [t |-> "json",
   l |-> [i \in 1..Len(list) |->
            IF list[i].t = "undefined" \/ (list[i].t = "number" /\ list[i].nan)
            THEN Null ELSE list[i]]]

\* A stored text that is not JSON.
BrokenItem == [t |-> "text", l |-> <<>>]

\* Rows of a sheet: with a CNPJ as text, with a CNPJ as a number, without
\* a CNPJ column.
UiRawPool ==
  <<<<Cell("CNPJ", StrV("12.345.678/0001-95")), Cell("Razao Social", StrV("Alfa"))>>,
    <<Cell("CNPJ", NumV(191, 0)), Cell("Razao Social", StrV("Theta"))>>,
    <<Cell("Razao Social", StrV("Zeta")), Cell("UF", StrV("mg"))>>>>

\* The datasets of the exploration: none, and the pool.
UiDatasets(zone) == {<<>>, SubSeq(NormalizeRows(UiRawPool, zone), 1, Len(UiRawPool))}

\* What the browser holds under 'company_favorites' when the App starts:
\* nothing, a text that is not JSON, or the array an earlier session wrote.
StoredItems ==
  {NoItem, BrokenItem, StringifyArray(<<>>),
   StringifyArray(<<StrV("12.345.678/0001-95")>>),
   StringifyArray(<<StrV("99.999.999/0001-99"), StrV("00.000.000/0001-91")>>)}

\* A load has completed with the dataset and the filter effect has run with
\* no selection; the effects of the mount are still to run.
UiInit ==
  /\ tz = -3
  /\ NormIdle
  /\ data \in UiDatasets(tz)
  /\ filteredData = data
  /\ allDataAccumulator = data
  /\ totalRecords = Len(data)
  /\ effectRuns = 1
  /\ hasLoaded = TRUE
  /\ loading = FALSE
  /\ promise = FinalCheck(data)
  /\ error = promise.reason
  /\ allData = data
  /\ pc = "done"
  /\ gidIndex = Len(SHEET_GIDS)
  /\ served = <<>>
  /\ result = <<>>
  /\ ChartIdle
  /\ favoriteIds = <<>>
  /\ pendingFavs = NoPending
  /\ storage \in StoredItems
  /\ favLoaded = FALSE
  /\ startFavs = {}
  /\ toggledOdd = {}
  /\ toggleCount = 0
  /\ showFavoritesOnly = FALSE
  /\ isExporting = FALSE
  /\ exportPc = "idle"
  /\ exportRequests = 0
  /\ alertText = ""

\* 3. Load Favorites: the effect of the mount. JSON.parse throws on a text
\* that is not JSON and the catch leaves the favorites as they are.
LoadFavoritesEffect ==
  /\ ~favLoaded
  /\ favLoaded' = TRUE
  /\ IF storage.t = "json"
     THEN /\ pendingFavs' = [due |-> TRUE, favs |-> NewSet(storage.l)]
          /\ startFavs' = Items(storage.l)
     ELSE UNCHANGED <<pendingFavs, startFavs>>
  /\ UNCHANGED <<tz, normVars, appVars, loaderVars, chartVars, exportVars,
                 favoriteIds, storage, toggledOdd, toggleCount>>

\* React renders the App with the value last given to setFavoriteIds; the
\* handlers of the new render see it.
Render ==
  /\ pendingFavs.due
  /\ favoriteIds' = pendingFavs.favs
  /\ pendingFavs' = NoPending
  /\ UNCHANGED <<tz, normVars, appVars, loaderVars, chartVars, exportVars,
                 storage, favLoaded, startFavs, toggledOdd, toggleCount>>

\* displayedData: the filtered records, or those of them that are favorites.
DisplayedData ==
  LET IsFavorite(row) == SetHas(favoriteIds, GetRowId(row))
  IN IF ~showFavoritesOnly THEN filteredData ELSE SelectSeq(filteredData, IsFavorite)

\* The body of handleToggleFavorite up to setFavoriteIds: newFavs, made from
\* the favoriteIds of the render the handler belongs to.
ToggleFavorite(row) ==
  LET id == GetRowId(row)
      newFavs == NewSet(favoriteIds)
  IN IF SetHas(newFavs, id) THEN SetDelete(newFavs, id) ELSE SetAdd(newFavs, id)

\* The user toggles the favorite of a record shown: handleToggleFavorite.
HandleToggleFavorite ==
  /\ favLoaded
  /\ toggleCount < MaxToggles
  /\ \E i \in 1..Len(DisplayedData) :
       LET row == DisplayedData[i]
           id == GetRowId(row)
           newFavs == ToggleFavorite(row)
       IN /\ pendingFavs' = [due |-> TRUE, favs |-> newFavs]
          /\ storage' = StringifyArray(newFavs)
          /\ toggledOdd' = IF id \in toggledOdd THEN toggledOdd \ {id}
                           ELSE toggledOdd \cup {id}
  /\ toggleCount' = toggleCount + 1
  /\ UNCHANGED <<tz, normVars, appVars, loaderVars, chartVars, exportVars,
                 favoriteIds, favLoaded, startFavs>>

\* The favorites button of the header: setShowFavoritesOnly(!showFavoritesOnly).
ToggleShowFavorites ==
  /\ showFavoritesOnly' = ~showFavoritesOnly
  /\ UNCHANGED <<tz, normVars, appVars, loaderVars, chartVars, favVars,
                 isExporting, exportPc, exportRequests, alertText>>

NoDataToExport == "Nao ha dados para exportar."

\* The user presses the export button, enabled while isExporting is false:
\* handleExport up to its return.
HandleExport ==
  /\ ~isExporting
  /\ exportRequests < MaxExportRequests
  /\ exportRequests' = exportRequests + 1
  /\ LET dataToExport == IF showFavoritesOnly THEN DisplayedData ELSE filteredData IN
     IF Len(dataToExport) = 0
     THEN /\ alertText' = NoDataToExport
          /\ UNCHANGED <<isExporting, exportPc>>
     ELSE /\ isExporting' = TRUE
          /\ exportPc' = "timer"
          /\ UNCHANGED alertText
  /\ UNCHANGED <<tz, normVars, appVars, loaderVars, chartVars, favVars, showFavoritesOnly>>

\* The timer of handleExport fires: its callback calls exportToPDF and
\* awaits it.
ExportTimerFires ==
  /\ exportPc = "timer"
  /\ exportPc' = "running"
  /\ UNCHANGED <<tz, normVars, appVars, loaderVars, chartVars, favVars,
                 showFavoritesOnly, isExporting, exportRequests, alertText>>

\* exportToPDF completes: the callback goes on to setIsExporting(false).
ExportCompletes ==
  /\ exportPc = "running"
  /\ isExporting' = FALSE
  /\ exportPc' = "idle"
  /\ UNCHANGED <<tz, normVars, appVars, loaderVars, chartVars, favVars,
                 showFavoritesOnly, exportRequests, alertText>>

\* exportToPDF throws (jsPDF, autoTable or doc.save): the promise of the
\* callback is rejected and the callback ends at its await; the try of
\* handleExport has returned long before.
ExportThrows ==
  /\ exportPc = "running"
  /\ exportPc' = "rejected"
  /\ UNCHANGED <<tz, normVars, appVars, loaderVars, chartVars, favVars,
                 showFavoritesOnly, isExporting, exportRequests, alertText>>

UiNext ==
  \/ LoadFavoritesEffect
  \/ Render
  \/ HandleToggleFavorite
  \/ ToggleShowFavorites
  \/ HandleExport
  \/ ExportTimerFires
  \/ ExportCompletes
  \/ ExportThrows

UiSpec == UiInit /\ [][UiNext]_vars

(***************************************************************************)
(* Properties of the loader and of the App's load                          *)
(***************************************************************************)

Settled == pc \in {"settled", "done"}

\* The answer is data: the fetch and the read of the body succeeded and the
\* page is not an HTML page.
ValidCsv(o) == o.kind = "body" /\ ~Body(o.body).html

\* The loader's HTML check and the normalizer, tabulated over the answers.
HtmlDetected == [b \in BodyNames |-> IsHtmlBody(Body(b).text)]
NormalizedBody ==
  [b \in BodyNames, z \in TimeZones |-> NormalizeRows(PapaParse(Body(b)), z)]

\* The answer passed the loader's own checks.
Accepted(o) == o.kind = "body" /\ ~HtmlDetected[o.body]

\* The normalized rows of the valid CSV answers among outs, in order.
RECURSIVE ValidCsvRows(_, _)
ValidCsvRows(outs, zone) ==
  IF outs = <<>> THEN <<>>
  ELSE (IF ValidCsv(Head(outs)) THEN NormalizedBody[Head(outs).body, zone] ELSE <<>>)
         \o ValidCsvRows(Tail(outs), zone)

\* The normalized rows of the accepted answers among outs, in order.
RECURSIVE AcceptedRows(_, _)
AcceptedRows(outs, zone) ==
  IF outs = <<>> THEN <<>>
  ELSE (IF Accepted(Head(outs)) THEN NormalizedBody[Head(outs).body, zone] ELSE <<>>)
         \o AcceptedRows(Tail(outs), zone)

\* How many gids the for loop is done with.
SourcesDone ==
  IF pc = "idle" THEN 0
  ELSE IF Settled THEN Len(SHEET_GIDS)
  ELSE gidIndex - 1

\* C1: whatever each source answers (network error, non-2xx, HTML page, valid
\* CSV), the loader goes through every source and its result is exactly the
\* normalized rows of the sources that answered with valid CSV.
C1_OnlyValidCsvRows ==
  Settled => /\ Len(served) = Len(SHEET_GIDS)
             /\ allData = ValidCsvRows(served, tz)

\* C2: fetchSheetData rejects if and only if no source yielded a row; when
\* some source yielded a row it fulfils with the rows, however many other
\* sources failed.
C2_RejectsIffNoRows ==
  /\ ~Settled => promise = Pending
  /\ Settled =>
       /\ promise.status \in {"rejected", "fulfilled"}
       /\ promise.status = "rejected" <=> Len(AcceptedRows(served, tz)) = 0
       /\ promise.status = "fulfilled" => promise.value = AcceptedRows(served, tz)
       /\ promise.status = "rejected" => promise.reason = NoDataMessage

\* C2 witness: a load that succeeded although two of its sources failed.
C2_Witness ==
  /\ pc = "settled"
  /\ promise.status = "fulfilled"
  /\ Cardinality({i \in 1..Len(served) : ~Accepted(served[i])}) = 2

\* C3: the dataset is the concatenation, in the order of SHEET_GIDS, of the
\* rows of each successful source in parse order; there is never more than
\* one fetch under way, so the order of completion is the order of the list.
C3_SourceListOrder ==
  /\ allData = AcceptedRows(SubSeq(served, 1, SourcesDone), tz)
  /\ Len(served) \in {SourcesDone, SourcesDone + 1}
  /\ Len(served) = SourcesDone + 1 <=> pc \in {"await_text", "await_parse"}

\* C3 witness: two sources with different rows were loaded, the three-row
\* sheet after the one-row sheet.
C3_Witness ==
  /\ Settled
  /\ Len(served) = 3
  /\ served[1].body = "OneRowCsv"
  /\ served[3].body = "ThreeRowCsv"
  /\ Len(allData) = 4
  /\ allData[1] = NormalizedBody["OneRowCsv", tz][1]
  /\ allData[4] = NormalizedBody["ThreeRowCsv", tz][3]

UpperKeyAt(row, i) == ToUpperCase(row[i].k)

\* The position of the last column of row whose upper-cased name passes the
\* test, 0 when there is none.
LastMatching(row, Test(_)) ==
  LET hits == {i \in 1..Len(row) : Test(UpperKeyAt(row, i))} IN
  IF hits = {} THEN 0 ELSE CHOOSE i \in hits : \A j \in hits : j <= i

ListAndCountAgree(row, listKey, countKey) ==
  /\ HasProp(row, listKey) <=> HasProp(row, countKey)
  /\ HasProp(row, listKey) =>
       /\ GetProp(row, listKey).t = "array"
       /\ GetProp(row, countKey) = NumV(Len(GetProp(row, listKey).l), 0)

\* C6: in every normalized row _socios_count is the length of _socios_list
\* and _cnae_sec_count is the length of _cnae_sec_list, also when several
\* columns match and when cells are not strings.
C6_CountsMatchLists ==
  mapped => /\ ListAndCountAgree(cleanedRow, "_socios_list", "_socios_count")
            /\ ListAndCountAgree(cleanedRow, "_cnae_sec_list", "_cnae_sec_count")

\* C6 witness: a row with two partner columns, the first a non-empty list and
\* the last a cell that is not a string.
C6_Witness ==
  /\ mapped
  /\ Cardinality({i \in 1..Len(rawRow) : IsSociosKey(UpperKeyAt(rawRow, i))}) = 2
  /\ rawRow[1].v = StrV("Ana; Beto;")
  /\ rawRow[2].v = Null
  /\ GetProp(cleanedRow, "_socios_count") = NumV(0, 0)

\* C7: a row with a non-empty capital column has _raw_capital set to a
\* number that is not negative (0 when the text cannot be parsed), never to
\* NaN or to something that is not a number.
C7_RawCapitalNonNegative ==
  mapped =>
    \A i \in 1..Len(rawRow) :
      (IsCapitalKey(UpperKeyAt(rawRow, i)) /\ rawRow[i].v.t # "null") =>
        LET rc == GetProp(cleanedRow, "_raw_capital") IN
        rc.t = "number" /\ ~rc.nan /\ rc.m >= 0

IsUpperLetter(c) == IndexOfChar("ABCDEFGHIJKLMNOPQRSTUVWXYZ", c) > 0

\* C8 as claimed: _uf, when present, is exactly two uppercase letters.
C8_UfTwoUpperLetters ==
  (mapped /\ HasProp(cleanedRow, "_uf")) =>
    LET uf == GetProp(cleanedRow, "_uf") IN
    /\ uf.t = "string"
    /\ Len(uf.s) = 2
    /\ IsUpperLetter(CharAt(uf.s, 1)) /\ IsUpperLetter(CharAt(uf.s, 2))

\* C8 as amended: _uf is present exactly when a column matches UF/ESTADO,
\* and is the text of the value of the last such column, upper-cased and
\* trimmed, whatever its length.
C8_UfUpperTrimmed ==
  mapped =>
    LET i == LastMatching(rawRow, IsUfKey)
        uf == GetProp(cleanedRow, "_uf")
    IN IF i = 0 THEN ~HasProp(cleanedRow, "_uf")
       ELSE /\ uf = StrV(Trim(ToUpperCase(JsString(GetProp(cleanedRow, rawRow[i].k)))))
            /\ uf.s = ToUpperCase(uf.s)
            /\ uf.s = Trim(uf.s)

\* C8 witness: a padded lower-case code becomes the two-letter code.
C8_Witness ==
  /\ mapped
  /\ rawRow = <<Cell("UF", StrV(" rj "))>>
  /\ GetProp(cleanedRow, "_uf") = StrV("RJ")

\* C9 as claimed: _year, when present, lies in 1900 < year <= currentYear.
C9_YearInRange ==
  (mapped /\ HasProp(cleanedRow, "_year")) =>
    LET year == GetProp(cleanedRow, "_year") IN
    year.t = "number" /\ ~year.nan /\ year.e = 0 /\ 1900 < year.m /\ year.m <= CurrentYear

\* C9 as amended: _year is present exactly when some date column holds a
\* value that parses as a date, and is the year of the last such column in
\* the local time zone, whatever the year.
C9_YearOfParseableDate ==
  mapped =>
    LET dated == {i \in 1..Len(rawRow) :
                    /\ IsDateKey(UpperKeyAt(rawRow, i))
                    /\ Truthy(rawRow[i].v)
                    /\ ParseDate(JsString(rawRow[i].v)).ok}
    IN IF dated = {} THEN ~HasProp(cleanedRow, "_year")
       ELSE LET last == CHOOSE i \in dated : \A j \in dated : j <= i IN
            GetProp(cleanedRow, "_year")
              = NumV(GetFullYear(ParseDate(JsString(rawRow[last].v)), tz), 0)

\* C9 witness: a parseable date before 1900 yields a year.
C9_Witness ==
  /\ mapped
  /\ rawRow = <<Cell("Data Inicio", StrV("1850-01-01"))>>
  /\ HasProp(cleanedRow, "_year")
  /\ GetProp(cleanedRow, "_year").m < 1900

\* C10: the capital rule gives a text in the Brazilian notation (optional
\* R$, periods between thousands, decimal comma) exactly the amount it
\* denotes, and uses a numeric cell unchanged. The column is the last one
\* that matches CAPITAL and matches neither the CNPJ nor the date rule.
C10_CurrencyExact ==
  mapped =>
    LET i == LastMatching(rawRow, IsCapitalKey) IN
    (/\ i > 0
     /\ ~IsCnpjKey(UpperKeyAt(rawRow, i))
     /\ ~IsDateKey(UpperKeyAt(rawRow, i))) =>
      LET rc == GetProp(cleanedRow, "_raw_capital") IN
      /\ \A sample \in CurrencySamples :
           rawRow[i].v = StrV(sample.text) => rc = NumV(sample.cents, 2)
      /\ rawRow[i].v.t = "number" => rc = rawRow[i].v

\* C10 witness: "R$ 1.234,56" was normalized to 1234.56.
C10_Witness ==
  /\ mapped
  /\ rawRow = <<Cell("Capital Social", StrV("R$ 1.234,56"))>>
  /\ GetProp(cleanedRow, "_raw_capital") = NumV(123456, 2)

\* The capital column of a mapped row that C10 and C11 speak about: the last
\* column matching CAPITAL, when it matches neither the CNPJ nor the date
\* rule (which would rewrite the cell before the capital rule reads it);
\* 0 when there is none.
CapitalColumn ==
  LET i == LastMatching(rawRow, IsCapitalKey) IN
  IF i > 0 /\ ~IsCnpjKey(UpperKeyAt(rawRow, i)) /\ ~IsDateKey(UpperKeyAt(rawRow, i))
  THEN i ELSE 0

IsCurrencySample(v) == \E sample \in CurrencySamples : v = StrV(sample.text)

\* C11: for a valid currency text the displayed cell is formatCurrency of the
\* parsed amount, and normalizing a row that holds the displayed cell gives
\* the same display text and the same _raw_capital again.
C11_CurrencyRoundTrip ==
  (mapped /\ CapitalColumn > 0 /\ IsCurrencySample(rawRow[CapitalColumn].v)) =>
    LET key == rawRow[CapitalColumn].k
        display == GetProp(cleanedRow, key)
        rc == GetProp(cleanedRow, "_raw_capital")
        again == NormalizeRow(<<Cell(key, display)>>, tz)
    IN /\ display = StrV(FormatCurrency(rc))
       /\ GetProp(again, key) = display
       /\ GetProp(again, "_raw_capital") = rc

\* C11 witness: "R$1.234.567,05" was normalized; its display differs from
\* the input text (a no-break space after R$).
C11_Witness ==
  /\ mapped
  /\ rawRow = <<Cell("Capital Social", StrV("R$1.234.567,05"))>>
  /\ GetProp(cleanedRow, "Capital Social") = StrV("R$" \o NBSP \o "1.234.567,05")
  /\ GetProp(cleanedRow, "_raw_capital") = NumV(123456705, 2)

\* The pieces of s between semicolons, by the positions of the semicolons.
PiecesBetweenSemicolons(s) ==
  LET seps == {i \in 1..Len(s) : CharAt(s, i) = ";"}
      bounds == seps \cup {0, Len(s) + 1}
      NextBound(b) == CHOOSE c \in bounds : c > b /\ \A d \in bounds : d > b => c <= d
      RECURSIVE From(_)
      From(b) == IF b = Len(s) + 1 THEN <<>>
                 ELSE <<SubSeq(s, b + 1, NextBound(b) - 1)>> \o From(NextBound(b))
  IN From(0)

IsNonEmptyText(str) == str # ""

\* The list the claim describes: split on ';', trim each piece, drop the
\* empty ones, order and duplicates kept.
ExpectedList(s) ==
  LET pieces == PiecesBetweenSemicolons(s) IN
  SelectSeq([k \in 1..Len(pieces) |-> Trim(pieces[k])], IsNonEmptyText)

\* The last column matching a list rule, when no earlier rule rewrites its
\* cell; 0 when there is none.
ListColumn(Test(_)) ==
  LET i == LastMatching(rawRow, Test) IN
  IF /\ i > 0
     /\ ~IsCnpjKey(UpperKeyAt(rawRow, i)) /\ ~IsDateKey(UpperKeyAt(rawRow, i))
     /\ ~IsCapitalKey(UpperKeyAt(rawRow, i))
  THEN i ELSE 0

ListIsExpected(Test(_), listKey, countKey) ==
  LET i == ListColumn(Test) IN
  (i > 0 /\ IsString(rawRow[i].v)) =>
    /\ GetProp(cleanedRow, listKey) = ArrV(ExpectedList(rawRow[i].v.s))
    /\ GetProp(cleanedRow, countKey) = NumV(Len(ExpectedList(rawRow[i].v.s)), 0)

\* C12: for a string cell of a partner or secondary-activity column the
\* derived list is the pieces between semicolons, each trimmed, the empty
\* ones dropped, in order and with duplicates; "Ana; Beto;" gives
\* ["Ana", "Beto"] and count 2.
C12_ListIsSplitTrimFilter ==
  mapped =>
    /\ ListIsExpected(IsSociosKey, "_socios_list", "_socios_count")
    /\ ListIsExpected(IsCnaeSecundarioKey, "_cnae_sec_list", "_cnae_sec_count")

\* C12 witness: "Ana; Beto;" gave ["Ana", "Beto"] and count 2.
C12_Witness ==
  /\ mapped
  /\ rawRow = <<Cell("Socios", StrV("Ana; Beto;"))>>
  /\ GetProp(cleanedRow, "_socios_list") = ArrV(<<"Ana", "Beto">>)
  /\ GetProp(cleanedRow, "_socios_count") = NumV(2, 0)

\* C13: a truthy CNPJ cell whose digits number at most 14 is shown as the
\* digits padded to 14 in the form NN.NNN.NNN/NNNN-NN, and any other cell of
\* a CNPJ column is passed through unchanged.
C13_CnpjFormatOrPassThrough ==
  mapped =>
    \A i \in 1..Len(rawRow) :
      (rawRow[i].k = "CNPJ") =>
        LET v == rawRow[i].v
            d == StripNonDigits(JsString(v))
            p == PadStartZero(d, 14)
        IN GetProp(cleanedRow, "CNPJ")
             = IF Truthy(v) /\ d # "" /\ Len(d) <= 14
               THEN StrV(SubSeq(p, 1, 2) \o "." \o SubSeq(p, 3, 5) \o "." \o SubSeq(p, 6, 8)
                           \o "/" \o SubSeq(p, 9, 12) \o "-" \o SubSeq(p, 13, 14))
               ELSE v

(***************************************************************************)
(* Properties of the aggregators and of the filter effect                  *)
(***************************************************************************)

\* a <= b for two numbers that are not NaN.
NumLeq(a, b) == a.m * Pow10(b.e) <= b.m * Pow10(a.e)

\* The capital of a record as the chart shows it: _raw_capital when it is a
\* number, 0 when the record has none or it is NaN.
ShownCapital(row) ==
  LET capital == GetProp(row, "_raw_capital") IN
  IF capital.t = "number" /\ ~capital.nan THEN capital ELSE NumV(0, 0)

\* points are the first min(TopN, size) records of the input in
\* non-increasing order of Value, equal ones in input order: each point
\* stands for a different record, carries Value of its record, and no record
\* left out would come before the last point.
IsTopN(points, input, Value(_)) ==
  LET shown == {points[k].fullData.src : k \in 1..Len(points)} IN
  /\ Len(points) = Min(TopN, Len(input))
  /\ shown \subseteq 1..Len(input)
  /\ Cardinality(shown) = Len(points)
  /\ \A k \in 1..Len(points) : points[k].value = Value(input[points[k].fullData.src])
  /\ \A k \in 1..(Len(points) - 1) :
       /\ NumLeq(points[k + 1].value, points[k].value)
       /\ points[k + 1].value = points[k].value
            => points[k].fullData.src < points[k + 1].fullData.src
  /\ \A i \in (1..Len(input)) \ shown :
       LET last == points[Len(points)] IN
       /\ NumLeq(Value(input[i]), last.value)
       /\ Value(input[i]) = last.value => last.fullData.src < i

\* C14: getTopCapital returns min(10, size) points in non-increasing order
\* of value, each value the record's _raw_capital (0 when there is none),
\* records of equal capital in dataset order.
C14_TopCapitalSortedStable ==
  chart.fn = "getTopCapital" => IsTopN(chart.points, filteredData, ShownCapital)

\* C14 witness: more than ten records, ten points, and two records of equal
\* capital next to each other among them.
C14_Witness ==
  /\ chart.fn = "getTopCapital"
  /\ Len(filteredData) > TopN
  /\ Len(chart.points) = TopN
  /\ \E k \in 1..(TopN - 1) :
       /\ chart.points[k].value = chart.points[k + 1].value
       /\ chart.points[k].value.m > 0
       /\ chart.points[k].fullData.row # chart.points[k + 1].fullData.row

\* The digits of the reference codes.
ReferenceDigits == {StripNonDigits(CNAE_LIST[i].code) : i \in 1..Len(CNAE_LIST)}

IsReferenceCode(code) == StripNonDigits(code) \in ReferenceDigits

\* The number of entries of the record's secondary list that are reference
\* codes, each occurrence counted.
ReferenceCount(row) ==
  LET cell == GetProp(row, "_cnae_sec_list") IN
  NumV(IF cell.t = "array" THEN Len(SelectSeq(cell.l, IsReferenceCode)) ELSE 0, 0)

\* C15: getTopCNAESecundary gives each record the number of entries of its
\* secondary list whose digits are a reference code, and returns the first
\* ten in non-increasing order of that number, ties in dataset order.
C15_TopCnaeCounts ==
  chart.fn = "getTopCNAESecundary" => IsTopN(chart.points, filteredData, ReferenceCount)

\* C15 witness: more than ten records, and a record whose list repeats a
\* reference code is counted twice.
C15_Witness ==
  /\ chart.fn = "getTopCNAESecundary"
  /\ Len(filteredData) > TopN
  /\ \E k \in 1..Len(chart.points) :
       /\ chart.points[k].value = NumV(2, 0)
       /\ GetProp(chart.points[k].fullData.row, "_cnae_sec_list")
            = ArrV(<<"6612-6/01", "6612-6/01", "4711-3/02">>)

\* The records that count for the year y in the trend as claimed: year is
\* y and _raw_capital is present.
HasYearAndCapital(row, y) ==
  GetProp(row, "_year") = NumV(y, 0) /\ HasProp(row, "_raw_capital")

RECURSIVE SumCapital(_, _, _)
SumCapital(input, n, y) ==
  IF n = 0 THEN NumV(0, 0)
  ELSE IF HasYearAndCapital(input[n], y)
       THEN NumAdd(SumCapital(input, n - 1, y), GetProp(input[n], "_raw_capital"))
       ELSE SumCapital(input, n - 1, y)

YearsOf(input) ==
  {GetProp(input[i], "_year").m : i \in {j \in 1..Len(input) : HasProp(input[j], "_year")}}

\* C16 as claimed: getCapitalTrend returns exactly one entry for every year
\* 1900 < y <= currentYear that some record with a _raw_capital has, its
\* value the sum of _raw_capital over those records, in ascending order of
\* year; years out of the range have no entry.
C16_TrendPerYear ==
  chart.fn = "getCapitalTrend" =>
    LET years == {y \in YearsOf(filteredData) :
                    /\ 1900 < y /\ y <= CurrentYear
                    /\ \E i \in 1..Len(filteredData) : HasYearAndCapital(filteredData[i], y)}
        points == chart.points
    IN /\ {points[k].name : k \in 1..Len(points)} = {IntToDigits(y) : y \in years}
       /\ Len(points) = Cardinality(years)
       /\ \A k \in 1..(Len(points) - 1) :
            DigitsToInt(points[k].name) < DigitsToInt(points[k + 1].name)
       /\ \A k \in 1..Len(points) :
            points[k].value
              = SumCapital(filteredData, Len(filteredData), DigitsToInt(points[k].name))

\* The region of a record as the normalizer derived it.
DerivedRegion(row) == GetProp(row, "_uf")

\* The region getGeoDistribution reads: _uf, or when _uf is empty or
\* missing the cell of the first column named exactly UF or ESTADO.
ReadRegion(row) ==
  LET uf == GetProp(row, "_uf")
      named == {i \in 1..Len(row) : ToUpperCase(row[i].k) \in {"UF", "ESTADO"}}
  IN IF (uf.t = "string" /\ uf.s # "") \/ named = {} THEN uf
     ELSE row[CHOOSE i \in named : \A j \in named : i <= j].v

\* points are at most 27 entries with names of two characters, each with
\* the number of records whose region by Region it is, in
\* non-increasing order of count, and no region left out has more records
\* than one that is shown.
IsGeoDistribution(points, input, Region(_)) ==
  LET Count(name) == Cardinality({i \in 1..Len(input) : Region(input[i]) = StrV(name)})
      names == {points[k].name : k \in 1..Len(points)}
      regions == {Region(input[i]).s : i \in 1..Len(input)}
  IN /\ Len(points) <= MaxRegionsShown
     /\ Cardinality(names) = Len(points)
     /\ \A k \in 1..Len(points) :
          /\ Len(points[k].name) = 2
          /\ points[k].value = Count(points[k].name)
          /\ points[k].value > 0
     /\ \A k \in 1..(Len(points) - 1) : points[k].value >= points[k + 1].value
     /\ \A name \in regions \ names :
          \/ Len(name) # 2
          \/ Count(name) = 0
          \/ Len(points) = MaxRegionsShown /\ Count(name) <= points[Len(points)].value

\* C17 as claimed: at most 27 entries, names of length 2, each with the
\* number of records whose region (_uf) it is, records without a region
\* counted nowhere, in non-increasing order of count.
C17_GeoByRegion ==
  chart.fn = "getGeoDistribution"
    => IsGeoDistribution(chart.points, filteredData, DerivedRegion)

\* C17 as amended: the same, where the region of a record is _uf or, when
\* _uf is empty or missing, the cell of its first column named exactly UF or
\* ESTADO.
C17_GeoByReadRegion ==
  chart.fn = "getGeoDistribution"
    => IsGeoDistribution(chart.points, filteredData, ReadRegion)

\* C17 witness: a dataset of more than 27 regions gave 27 entries.
C17_Witness ==
  /\ chart.fn = "getGeoDistribution"
  /\ Cardinality({GetProp(filteredData[i], "_uf") : i \in 1..Len(filteredData)})
       > MaxRegionsShown
  /\ Len(chart.points) = MaxRegionsShown
  /\ chart.points[1].value > chart.points[MaxRegionsShown].value

\* C18: no aggregator call and no run of the filter changes its input: a
\* step of the filter effect leaves data as it was, and an aggregator call
\* leaves both data and the filteredData it was given as they were, records,
\* order, fields and values.
C18_InputsUnchanged ==
  [][/\ data' = data
     /\ chart'.fn # "" => filteredData' = filteredData]_vars

\* C18 witness: a selection is applied, the filter kept some records and
\* dropped others, and getTopCapital returned them in another order than
\* that of its input.
C18_Witness ==
  /\ activeFilters # NoFilters
  /\ Len(filteredData) > 1
  /\ Len(filteredData) < Len(data)
  /\ chart.fn = "getTopCapital"
  /\ \E k \in 1..Len(chart.points) : chart.points[k].fullData.src # k

\* C19: every point of getTopCapital and of getTopCNAESecundary carries as
\* fullData the very object of the input dataset, with the fields it has
\* there: not a copy and not a record with more fields.
C19_FullDataIsInputRecord ==
  chart.fn \in {"getTopCapital", "getTopCNAESecundary"} =>
    \A k \in 1..Len(chart.points) :
      LET fullData == chart.points[k].fullData IN
      /\ fullData.ref \in 1..Len(filteredData)
      /\ fullData.row = filteredData[fullData.ref]

\* C20: once the filter effect has run with the three selections empty,
\* filteredData is data: the same records in the same order.
C20_EmptySelectionsIdentity ==
  (~filterStale /\ activeFilters = NoFilters) => filteredData = data

\* C20 witness: the filter effect has run with empty selections on a
\* dataset of which every non-empty selection explored would drop a record.
C20_Witness ==
  /\ ~filterStale
  /\ activeFilters = NoFilters
  /\ Len(data) > 1
  /\ filteredData = data
  /\ \A filters \in FilterChoices \ {NoFilters} :
       Len(FilterRows(data, filters).result) < Len(data)

\* Whether row satisfies every dimension of filters whose selection is not
\* empty, where the region of a record is Region(row).
SatisfiesSelections(row, filters, Region(_)) ==
  /\ filters.cnaes # <<>> => MatchesCnaes(row, filters.cnaes)
  /\ filters.ufs # <<>> => \E k \in 1..Len(filters.ufs) : Region(row) = StrV(filters.ufs[k])
  /\ filters.naturezas # <<>> => MatchesNaturezas(row, filters.naturezas)

\* filteredData is the records of data that satisfy the selections, in the
\* order of data.
IsSelection(Region(_)) ==
  filteredData = SelectSeq(data, LAMBDA row : SatisfiesSelections(row, activeFilters, Region))

\* C21 as claimed: once the filter effect has run, filteredData is the
\* subsequence of data of exactly the records that satisfy every dimension
\* with a non-empty selection, a record satisfying the region dimension iff
\* its region (_uf) is one of the selected strings.
C21_FilterByRegion == ~filterStale => IsSelection(DerivedRegion)

\* C21 as amended: the same, where the region of a record is _uf or, when
\* _uf is empty or missing, the cell of its first column named exactly UF or
\* ESTADO.
C21_FilterByReadRegion == ~filterStale => IsSelection(ReadRegion)

\* C21 witness: the three selections are not empty, the filter kept a
\* record and dropped two records that each fail one dimension only, one
\* the region and one the legal nature.
C21_Witness ==
  /\ ~filterStale
  /\ activeFilters.cnaes # <<>> /\ activeFilters.ufs # <<>> /\ activeFilters.naturezas # <<>>
  /\ filteredData # <<>>
  /\ \E i, j \in 1..Len(data) :
       /\ MatchesCnaes(data[i], activeFilters.cnaes)
       /\ MatchesNaturezas(data[i], activeFilters.naturezas)
       /\ ~MatchesUfs(data[i], activeFilters.ufs)
       /\ MatchesCnaes(data[j], activeFilters.cnaes)
       /\ MatchesUfs(data[j], activeFilters.ufs)
       /\ ~MatchesNaturezas(data[j], activeFilters.naturezas)

\* Whether sub occurs in str from some position on.
OccursIn(sub, str) ==
  \E i \in 0..(Len(str) - Len(sub)) : SubSeq(str, i + 1, i + Len(sub)) = sub

\* The primary activity code of a record as text, and whether it has one.
HasPrimaryActivityCode(row) ==
  GetProp(row, "_cnae_principal") \notin {Undefined, Null, StrV("")}

PrimaryActivityCode(row) == JsString(GetProp(row, "_cnae_principal"))

\* The entries of the secondary activity list of a record.
SecondaryActivityList(row) ==
  LET list == GetProp(row, "_cnae_sec_list")
  IN IF list.t = "array" THEN list.l ELSE <<>>

\* For at least one selected code, its digits occur in the digits of the
\* primary activity code or in the digits of some entry of the secondary
\* activity list.
SatisfiesActivityCodes(row, cnaes) ==
  \E k \in 1..Len(cnaes) :
    \/ /\ HasPrimaryActivityCode(row)
       /\ OccursIn(StripNonDigits(cnaes[k]), StripNonDigits(PrimaryActivityCode(row)))
    \/ \E j \in 1..Len(SecondaryActivityList(row)) :
         OccursIn(StripNonDigits(cnaes[k]), StripNonDigits(SecondaryActivityList(row)[j]))

\* C22: once the filter effect has run with a non-empty selection of
\* activity codes, every record it kept satisfies the selection (the digits
\* of a selected code occur in the digits of its primary code or of an
\* entry of its secondary list), no record with neither a primary code nor
\* secondary entries is kept, and when the other two selections are empty
\* the records kept are exactly those of data that satisfy the selection.
C22_ActivityCodeMatch ==
  (~filterStale /\ activeFilters.cnaes # <<>>) =>
    /\ \A i \in 1..Len(filteredData) :
         /\ SatisfiesActivityCodes(filteredData[i], activeFilters.cnaes)
         /\ HasPrimaryActivityCode(filteredData[i])
              \/ SecondaryActivityList(filteredData[i]) # <<>>
    /\ (activeFilters.ufs = <<>> /\ activeFilters.naturezas = <<>>) =>
         filteredData
           = SelectSeq(data, LAMBDA row : SatisfiesActivityCodes(row, activeFilters.cnaes))

\* C22 witness: with a selection of activity codes alone, the filter kept a
\* record for its primary code, a number, kept another for an entry of its secondary
\* list written with other punctuation than the selected code, and dropped a
\* record that has neither a primary code nor secondary entries.
C22_Witness ==
  /\ ~filterStale
  /\ activeFilters.cnaes # <<>> /\ activeFilters.ufs = <<>> /\ activeFilters.naturezas = <<>>
  /\ \E i \in 1..Len(filteredData) :
       /\ IsNumber(GetProp(filteredData[i], "_cnae_principal"))
       /\ MatchesCnaesPrimaryOnly(filteredData[i], activeFilters.cnaes)
  /\ \E i \in 1..Len(filteredData) :
       /\ ~MatchesCnaesPrimaryOnly(filteredData[i], activeFilters.cnaes)
       /\ \A j \in 1..Len(SecondaryActivityList(filteredData[i])) :
            \A k \in 1..Len(activeFilters.cnaes) :
              ~OccursIn(activeFilters.cnaes[k], SecondaryActivityList(filteredData[i])[j])
  /\ \E i \in 1..Len(data) :
       /\ ~HasPrimaryActivityCode(data[i])
       /\ SecondaryActivityList(data[i]) = <<>>
  /\ Len(filteredData) < Len(data)

\* The positions of the fields of a record whose key contains NATUREZA or
\* JURIDICA.
LegalNatureFields(row) ==
  {i \in 1..Len(row) : \/ OccursIn("NATUREZA", ToUpperCase(row[i].k))
                        \/ OccursIn("JURIDICA", ToUpperCase(row[i].k))}

\* The text before the first dash of a selected value, trimmed.
LeadingCode(selected) ==
  LET dashes == {i \in 1..Len(selected) : CharAt(selected, i) = "-"}
  IN IF dashes = {} THEN Trim(selected)
     ELSE Trim(SubSeq(selected, 1, (CHOOSE i \in dashes : \A j \in dashes : i <= j) - 1))

\* Whether the leading code of a selected value occurs in the value, as
\* text, of one of the fields of the record at the positions fields; Text
\* gives the text compared.
SatisfiesLegalNature(row, fields, naturezas, Text(_)) ==
  \E i \in fields : \E k \in 1..Len(naturezas) :
    OccursIn(LeadingCode(naturezas[k]), Text(JsString(row[i].v)))

\* The first of the fields at the positions fields, if any.
FirstOf(fields) == {i \in fields : \A j \in fields : i <= j}

AsWritten(str) == str

\* Once the filter effect has run with a non-empty selection of legal
\* natures, every record it kept satisfies the selection by Satisfies, and
\* when the other two selections are empty the records kept are exactly
\* those of data that satisfy it.
KeepsByLegalNature(Satisfies(_)) ==
  (~filterStale /\ activeFilters.naturezas # <<>>) =>
    /\ \A i \in 1..Len(filteredData) : Satisfies(filteredData[i])
    /\ (activeFilters.cnaes = <<>> /\ activeFilters.ufs = <<>>) =>
         filteredData = SelectSeq(data, Satisfies)

\* C23 as claimed: a record is kept by a non-empty selection of legal
\* natures iff it has a field whose key contains NATUREZA or JURIDICA and
\* the text before the first dash of some selected value, trimmed, occurs
\* in that field's value; a record with no such field is dropped.
C23_LegalNatureAnyField ==
  KeepsByLegalNature(LAMBDA row :
    SatisfiesLegalNature(row, LegalNatureFields(row), activeFilters.naturezas, AsWritten))

\* C23 as amended: the same, where the field is the first field of the
\* record whose key contains NATUREZA or JURIDICA, and its value is compared
\* as text in upper case.
C23_LegalNatureFirstField ==
  KeepsByLegalNature(LAMBDA row :
    SatisfiesLegalNature(row, FirstOf(LegalNatureFields(row)), activeFilters.naturezas,
                         ToUpperCase))

\* C23 witness: with a selection of legal natures alone, the filter kept a
\* record whose field holds the code and not the whole selected value, and
\* dropped a record with no such field and a record whose first such field
\* does not hold the code while its second one does.
C23_Witness ==
  /\ ~filterStale
  /\ activeFilters.naturezas # <<>> /\ activeFilters.cnaes = <<>> /\ activeFilters.ufs = <<>>
  /\ \E i \in 1..Len(filteredData) :
       ~MatchesNaturezasWholeOption(filteredData[i], activeFilters.naturezas)
  /\ \E i \in 1..Len(data) : LegalNatureFields(data[i]) = {}
  /\ \E i \in 1..Len(data) :
       /\ Cardinality(LegalNatureFields(data[i])) = 2
       /\ SatisfiesLegalNature(data[i], LegalNatureFields(data[i]), activeFilters.naturezas,
                               ToUpperCase)
       /\ \A j \in 1..Len(filteredData) : filteredData[j] # data[i]

\* The normalized row has every key of the raw row.
KeepsEveryKey == \A i \in 1..Len(rawRow) : HasProp(cleanedRow, rawRow[i].k)

\* A date cell that does not parse is shown as it was (in a column that no
\* later rule rewrites), and a row none of whose date cells parses has no
\* year.
UnparseableDateDegrades ==
  LET Unparseable(i) == /\ IsDateKey(UpperKeyAt(rawRow, i))
                        /\ Truthy(rawRow[i].v)
                        /\ ~ParseDate(JsString(rawRow[i].v)).ok
  IN /\ \A i \in 1..Len(rawRow) :
          (/\ Unparseable(i)
           /\ ~IsCnpjKey(UpperKeyAt(rawRow, i))
           /\ ~IsCapitalKey(UpperKeyAt(rawRow, i))
           /\ ~IsSociosKey(UpperKeyAt(rawRow, i))) =>
            GetProp(cleanedRow, rawRow[i].k) = StrV(JsString(rawRow[i].v))
     /\ (\A i \in 1..Len(rawRow) : IsDateKey(UpperKeyAt(rawRow, i)) => Unparseable(i))
          => ~HasProp(cleanedRow, "_year")

\* A capital cell that is not a number and does not parse as one gives a
\* raw capital of 0.
UnparseableCurrencyDegrades ==
  LET i == CapitalColumn IN
  (/\ i > 0
   /\ \/ rawRow[i].v.t = "boolean"
      \/ /\ IsString(rawRow[i].v)
         /\ ParseFloat(ReplaceFirstComma(RemovePeriods(
                         StripNonCurrency(rawRow[i].v.s)))).nan)
    => GetProp(cleanedRow, "_raw_capital") = NumV(0, 0)

\* A list cell that is not a string gives an empty list.
NonStringListDegrades ==
  LET NotRewritten(i) == /\ ~IsCnpjKey(UpperKeyAt(rawRow, i))
                         /\ ~IsDateKey(UpperKeyAt(rawRow, i))
                         /\ ~IsCapitalKey(UpperKeyAt(rawRow, i))
  IN /\ LET i == LastMatching(rawRow, IsSociosKey) IN
          (i > 0 /\ NotRewritten(i) /\ ~IsString(rawRow[i].v))
            => GetProp(cleanedRow, "_socios_list") = ArrV(<<>>)
     /\ LET i == LastMatching(rawRow, IsCnaeSecundarioKey) IN
          (i > 0 /\ NotRewritten(i) /\ ~IsString(rawRow[i].v))
            => GetProp(cleanedRow, "_cnae_sec_list") = ArrV(<<>>)

\* C24: the map callback returns a record for every row, whatever its keys
\* and cells: the record has every key of the raw row, a date that does not
\* parse is passed through with no year, a currency that does not parse
\* gives a raw capital of 0, and a list cell that is not a string gives an
\* empty list.
C24_NormalizerDegrades ==
  mapped =>
    /\ KeepsEveryKey
    /\ UnparseableDateDegrades
    /\ UnparseableCurrencyDegrades
    /\ NonStringListDegrades

\* C25: once the favorites are loaded, the user has toggled and React has
\* rendered, the array stored under 'company_favorites' holds the
\* identifiers of favoriteIds and no other, and an identifier is a favorite
\* iff it was read at startup and toggled an even number of times or was
\* not read at startup and toggled an odd number of times; also when
\* toggles were made before a render.
C25_FavoritesFollowToggles ==
  (favLoaded /\ ~pendingFavs.due) =>
    /\ toggleCount > 0 => (storage.t = "json" /\ Items(storage.l) = Items(favoriteIds))
    /\ \A id \in Items(favoriteIds) \cup startFavs \cup toggledOdd :
         id \in Items(favoriteIds) <=> ((id \in startFavs) # (id \in toggledOdd))

\* C30: an export that was started and has ended, exportToPDF having
\* completed or thrown, has left isExporting false, so that the export button
\* is enabled again; and a request for an export of no record starts no
\* export and leaves isExporting as it was.
C30_ExportEndsEnabled ==
  /\ [](exportPc \in {"idle", "rejected"} => ~isExporting)
  /\ [][(/\ exportRequests' # exportRequests
         /\ Len(IF showFavoritesOnly THEN DisplayedData ELSE filteredData) = 0)
          => (isExporting' = isExporting /\ exportPc' = exportPc)]_vars

\* The fields the normalizer derives: one value each, and lists.
SingularFields == {"_raw_capital", "_year", "_cnae_principal", "_uf"}
ListFields == {"_socios_list", "_cnae_sec_list"}

\* Each column of the raw row up to position n, normalized alone.
RECURSIVE ColumnsAlone(_)
ColumnsAlone(n) ==
  IF n = 0 THEN <<>>
  ELSE Append(ColumnsAlone(n - 1), NormalizeRow(<<rawRow[n]>>, tz))

\* The positions of the columns that, normalized alone, give the derived
\* field.
ColumnsGivingIn(alone, field) ==
  {i \in 1..Len(alone) : HasProp(alone[i], field)}

ColumnsGiving(field) == ColumnsGivingIn(ColumnsAlone(Len(rawRow)), field)

\* The derived field is the one that the column at position i gives alone.
TakenFromIn(alone, field, i) ==
  GetProp(cleanedRow, field) = GetProp(alone[i], field)

\* C26 as claimed: when several columns of a row give the same derived
\* field, a singular field (_raw_capital, _year, _cnae_principal, _uf) has
\* the value of the first of them in key order and a list field
\* (_socios_list, _cnae_sec_list) that of the last.
C26_FirstWinsForSingular ==
  mapped =>
    LET alone == ColumnsAlone(Len(rawRow)) IN
    /\ \A field \in SingularFields :
         LET cols == ColumnsGivingIn(alone, field) IN
         Cardinality(cols) > 1 =>
           TakenFromIn(alone, field, CHOOSE i \in cols : \A j \in cols : i <= j)
    /\ \A field \in ListFields :
         LET cols == ColumnsGivingIn(alone, field) IN
         Cardinality(cols) > 1 =>
           TakenFromIn(alone, field, CHOOSE i \in cols : \A j \in cols : j <= i)

\* C26 as amended: every derived field, singular or list, has the value of
\* the last column in key order that gives it.
C26_LastWins ==
  mapped =>
    LET alone == ColumnsAlone(Len(rawRow)) IN
    \A field \in SingularFields \cup ListFields :
      LET cols == ColumnsGivingIn(alone, field) IN
      cols # {} => TakenFromIn(alone, field, CHOOSE i \in cols : \A j \in cols : j <= i)

\* C26 witness: a row with two region columns that give different regions
\* has the region of the second.
C26_Witness ==
  /\ mapped
  /\ rawRow = <<Cell("UF", StrV("sp")), Cell("Estado Sede", StrV("mg"))>>
  /\ GetProp(cleanedRow, "_uf") = StrV("MG")

\* The text begins, after leading white space and whatever the case, with a
\* doctype or an html tag.
BeginsWithHtmlTag(text) ==
  LET start == ToLowerCase(TrimStart(text))
  IN OccursIn("<!doctype html", SubSeq(start, 1, Min(Len(start), Len("<!doctype html"))))
       \/ OccursIn("<html", SubSeq(start, 1, Min(Len(start), Len("<html"))))

\* C27: when the body of a 2xx response has been read and checked, the source is skipped
\* as HTML if and only if the body begins with a doctype or html tag in any
\* case; any other body, also one with an html tag further on, is parsed and
\* its rows are the result of the source.
C27_HtmlIsPrefixCheck ==
  [][(pc = "await_text" /\ pc' # pc /\ served[gidIndex].kind = "body") =>
       LET body == Body(served[gidIndex].body) IN
       IF BeginsWithHtmlTag(body.text)
       THEN pc' # "await_parse" /\ allData' = allData
       ELSE pc' = "await_parse" /\ result' = NormalizeRows(PapaParse(body), tz)]_vars

\* The categories of the classifier in their priority order, each with the
\* test of its keys and the field derived for it ("" when it derives none).
Categories ==
  <<[name |-> "identifier", field |-> ""],
    [name |-> "currency", field |-> "_raw_capital"],
    [name |-> "date", field |-> "_year"],
    [name |-> "partners", field |-> "_socios_list"],
    [name |-> "secondary", field |-> "_cnae_sec_list"],
    [name |-> "primary", field |-> "_cnae_principal"],
    [name |-> "region", field |-> "_uf"]>>

KeyMatches(c, upperKey) ==
  CASE Categories[c].name = "identifier" -> IsCnpjKey(upperKey)
    [] Categories[c].name = "currency" -> IsCapitalKey(upperKey)
    [] Categories[c].name = "date" -> IsDateKey(upperKey)
    [] Categories[c].name = "partners" -> IsSociosKey(upperKey)
    [] Categories[c].name = "secondary" -> IsCnaeSecundarioKey(upperKey)
    [] Categories[c].name = "primary" -> IsCnaePrincipalKey(upperKey)
    [] OTHER -> IsUfKey(upperKey)

\* C28: a column gives the normalized row the derived field of one category
\* at most, the first in priority order of the categories its key matches:
\* no column whose key matches several categories gives the derived field
\* of a category of lower priority.
C28_OneCategoryPerKey ==
  mapped =>
    \A i \in 1..Len(rawRow) : \A c \in 1..Len(Categories) :
      (/\ Categories[c].field # ""
       /\ HasProp(cleanedRow, Categories[c].field)
       /\ i \in ColumnsGiving(Categories[c].field))
        => \A b \in 1..(c - 1) : ~KeyMatches(b, UpperKeyAt(rawRow, i))

\* The year of a date shown as dd/mm/yyyy: the number after the last slash.
ShownYear(text) ==
  LET slashes == {i \in 1..Len(text) : CharAt(text, i) = "/"}
      last == CHOOSE i \in slashes : \A j \in slashes : j <= i
  IN DigitsToInt(SubSeq(text, last + 1, Len(text)))

\* C29: in every time zone, the year derived from a date cell that parses
\* is the year of the date shown in the reformatted cell. The cell is that
\* of the last column that gives the year, in a column that only the date
\* rule rewrites.
C29_YearIsShownYear ==
  mapped =>
    LET cols == ColumnsGiving("_year") IN
    cols # {} =>
      LET i == CHOOSE i \in cols : \A j \in cols : j <= i IN
      (/\ ~IsCnpjKey(UpperKeyAt(rawRow, i))
       /\ ~IsCapitalKey(UpperKeyAt(rawRow, i))
       /\ ~IsSociosKey(UpperKeyAt(rawRow, i))) =>
        GetProp(cleanedRow, "_year") = NumV(ShownYear(GetProp(cleanedRow, rawRow[i].k).s), 0)


====
